---- MODULE Spec2Model ----
(***************************************************************************)
(* Citation matcher of the Knot reference manager                          *)
(* (calculateSimilarity, normalizeString, fuzzyMatch, findMatchingItems,   *)
(* matchReferencesToLibrary).                                              *)
(*                                                                         *)
(* A JavaScript string is a sequence of one-character strings, so that     *)
(* toLowerCase, the regular-expression replacements, split, includes and   *)
(* Date parsing are computed character by character.  A JavaScript number  *)
(* that is a similarity or a score is an exact rational <<n, d>> in lowest *)
(* terms with d > 0.                                                       *)
(***************************************************************************)
EXTENDS Integers, Sequences, FiniteSets, TLC

VARIABLES references, libraryItems, tz, pc, cursor, matchMap, matches,
          referencesText, strategy, lines, lineNo, parsed, ppc,
          fullText, refStart, locator, extracted, epc,
          dbItems, dbAttachments, created,
          collections, activeFilter, selectedIds, deletion,
          formData, citationMatches, extraction, activeAnalyses, analyses,
          isAnalyzing

\* the state of matchReferencesToLibrary
matcherVars == <<references, libraryItems, tz, pc, cursor, matchMap, matches>>

\* the state of parseReferences
parserVars == <<referencesText, strategy, lines, lineNo, parsed, ppc>>

\* the state of extractReferencesFromPdf
extractorVars == <<fullText, refStart, locator, extracted, epc>>

\* the tables of the database and the number of ids generated so far
storeVars == <<dbItems, dbAttachments, created>>

\* the state of the Home page and of the Sidebar
libraryVars == <<collections, activeFilter, selectedIds, deletion>>

\* the state of the DetailPanel and of the AnalysisPanel
panelVars == <<formData, citationMatches, extraction, activeAnalyses, analyses, isAnalyzing>>

appVars == <<storeVars, libraryVars, panelVars>>

vars == <<matcherVars, parserVars, extractorVars, appVars>>

(***************************************************************************)
(* Bounds of the model.                                                    *)
(***************************************************************************)
MaxRefs == 2
MaxItems == 3

(***************************************************************************)
(* Characters and strings.                                                 *)
(***************************************************************************)
\* The value of an optional field that is absent.
undefined == <<"<undefined>">>

UpperLetters == <<"A", "B", "C", "D", "E", "F", "G", "H", "I", "J", "K", "L", "M",
                  "N", "O", "P", "Q", "R", "S", "T", "U", "V", "W", "X", "Y", "Z">>
LowerLetters == <<"a", "b", "c", "d", "e", "f", "g", "h", "i", "j", "k", "l", "m",
                  "n", "o", "p", "q", "r", "s", "t", "u", "v", "w", "x", "y", "z">>
Digits == <<"0", "1", "2", "3", "4", "5", "6", "7", "8", "9">>

Range(s) == {s[k] : k \in DOMAIN s}

UpperSet == Range(UpperLetters)
LowerSet == Range(LowerLetters)
DigitSet == Range(Digits)

WordChars == UpperSet \cup LowerSet \cup DigitSet \cup {"_"}

\* \w of a JavaScript regular expression
IsWordChar(c) == c \in WordChars

\* \s of a JavaScript regular expression
IsSpace(c) == c \in {" ", "\t", "\n", "\r"}

LowerOf == [c \in UpperSet |-> LowerLetters[CHOOSE k \in 1..26 : UpperLetters[k] = c]]

\* String.prototype.toLowerCase
RECURSIVE toLowerCase(_)
toLowerCase(str) ==
    IF str = <<>> THEN <<>>
    ELSE <<IF Head(str) \in UpperSet THEN LowerOf[Head(str)] ELSE Head(str)>>
         \o toLowerCase(Tail(str))

\* JavaScript truthiness of an optional string: defined and not empty
Truthy(str) == str # undefined /\ str # <<>>

\* .replace(/[^\w\s]/g, ' ')
RECURSIVE ReplaceNonWord(_)
ReplaceNonWord(str) ==
    IF str = <<>> THEN <<>>
    ELSE <<IF IsWordChar(Head(str)) \/ IsSpace(Head(str)) THEN Head(str) ELSE " ">>
         \o ReplaceNonWord(Tail(str))

\* .replace(/\s+/g, ' ')
RECURSIVE CollapseFrom(_, _)
CollapseFrom(str, k) ==
    IF k > Len(str) THEN <<>>
    ELSE IF IsSpace(str[k])
         THEN IF k > 1 /\ IsSpace(str[k - 1])
              THEN CollapseFrom(str, k + 1)
              ELSE <<" ">> \o CollapseFrom(str, k + 1)
         ELSE <<str[k]>> \o CollapseFrom(str, k + 1)

CollapseSpaces(str) == CollapseFrom(str, 1)

\* String.prototype.trim
trim(str) ==
    LET nonSpace == {k \in 1..Len(str) : ~IsSpace(str[k])}
    IN  IF nonSpace = {} THEN <<>>
        ELSE SubSeq(str,
                    CHOOSE k \in nonSpace : \A m \in nonSpace : k <= m,
                    CHOOSE k \in nonSpace : \A m \in nonSpace : k >= m)

normalizeString(str) == trim(CollapseSpaces(ReplaceNonWord(toLowerCase(str))))

\* String.prototype.split(' '): the pieces between single spaces, empty pieces included
RECURSIVE SplitFrom(_, _, _)
SplitFrom(str, k, cur) ==
    IF k > Len(str) THEN <<cur>>
    ELSE IF str[k] = " "
         THEN <<cur>> \o SplitFrom(str, k + 1, <<>>)
         ELSE SplitFrom(str, k + 1, Append(cur, str[k]))

split(str) == SplitFrom(str, 1, <<>>)

\* String.prototype.includes
includes(str, sub) ==
    \E k \in 0..(Len(str) - Len(sub)) : SubSeq(str, k + 1, k + Len(sub)) = sub

(***************************************************************************)
(* Exact rational arithmetic for scores.                                   *)
(***************************************************************************)
RECURSIVE GCD(_, _)
GCD(a, b) == IF b = 0 THEN a ELSE GCD(b, a % b)

Rat(n, d) == LET g == GCD(n, d) IN IF n = 0 THEN <<0, 1>> ELSE <<n \div g, d \div g>>

RAdd(x, y) == Rat(x[1] * y[2] + y[1] * x[2], x[2] * y[2])
RMul(x, y) == Rat(x[1] * y[1], x[2] * y[2])
RLeq(x, y) == x[1] * y[2] <= y[1] * x[2]
RLess(x, y) == x[1] * y[2] < y[1] * x[2]

(***************************************************************************)
(* new Date(str).getFullYear().toString()                                  *)
(***************************************************************************)
IsDigits(str) == \A k \in 1..Len(str) : str[k] \in DigitSet

DigitValue(c) == (CHOOSE k \in 1..10 : Digits[k] = c) - 1

\* the number written by a sequence of decimal digits
RECURSIVE ParseDigits(_)
ParseDigits(str) ==
    IF str = <<>> THEN 0
    ELSE 10 * ParseDigits(SubSeq(str, 1, Len(str) - 1)) + DigitValue(str[Len(str)])

\* Number.prototype.toString of a non-negative integer
RECURSIVE NumberToString(_)
NumberToString(n) ==
    IF n < 10 THEN <<Digits[n + 1]>>
    ELSE NumberToString(n \div 10) \o <<Digits[(n % 10) + 1]>>

IsLeapYear(y) == (y % 4 = 0 /\ y % 100 # 0) \/ y % 400 = 0

DaysInMonth(y, m) ==
    IF m = 2 THEN (IF IsLeapYear(y) THEN 29 ELSE 28)
    ELSE IF m \in {4, 6, 9, 11} THEN 30 ELSE 31

RECURSIVE DaysBeforeMonth(_, _)
DaysBeforeMonth(y, m) == IF m = 1 THEN 0 ELSE DaysBeforeMonth(y, m - 1) + DaysInMonth(y, m - 1)

DaysInYear(y) == IF IsLeapYear(y) THEN 366 ELSE 365

InvalidDate == [valid |-> FALSE, year |-> 0, month |-> 0, day |-> 0]

\* Date.parse on the ECMAScript date-only forms YYYY, YYYY-MM and YYYY-MM-DD,
\* which denote midnight UTC of that day; any other string of the model's
\* pools is not a date and gives an Invalid Date.
DateParse(str) ==
    IF Len(str) = 4 /\ IsDigits(str)
    THEN [valid |-> TRUE, year |-> ParseDigits(str), month |-> 1, day |-> 1]
    ELSE IF Len(str) = 7 /\ IsDigits(SubSeq(str, 1, 4)) /\ str[5] = "-"
            /\ IsDigits(SubSeq(str, 6, 7)) /\ ParseDigits(SubSeq(str, 6, 7)) \in 1..12
    THEN [valid |-> TRUE, year |-> ParseDigits(SubSeq(str, 1, 4)),
          month |-> ParseDigits(SubSeq(str, 6, 7)), day |-> 1]
    ELSE IF Len(str) = 10 /\ IsDigits(SubSeq(str, 1, 4)) /\ str[5] = "-"
            /\ IsDigits(SubSeq(str, 6, 7)) /\ ParseDigits(SubSeq(str, 6, 7)) \in 1..12
            /\ str[8] = "-" /\ IsDigits(SubSeq(str, 9, 10))
            /\ ParseDigits(SubSeq(str, 9, 10)) \in
                  1..DaysInMonth(ParseDigits(SubSeq(str, 1, 4)), ParseDigits(SubSeq(str, 6, 7)))
    THEN [valid |-> TRUE, year |-> ParseDigits(SubSeq(str, 1, 4)),
          month |-> ParseDigits(SubSeq(str, 6, 7)), day |-> ParseDigits(SubSeq(str, 9, 10))]
    ELSE InvalidDate

\* Date.prototype.getFullYear: the year of the instant in the local time zone
\* of the runtime, offset minutes east of UTC.
getFullYear(date, offset) ==
    LET minuteOfYear == (DaysBeforeMonth(date.year, date.month) + date.day - 1) * 1440 + offset
    IN  IF minuteOfYear < 0 THEN date.year - 1
        ELSE IF minuteOfYear >= DaysInYear(date.year) * 1440 THEN date.year + 1
        ELSE date.year

\* new Date(str).getFullYear().toString(), "NaN" for an Invalid Date
DateYearString(str, offset) ==
    LET date == DateParse(str)
    IN  IF date.valid THEN NumberToString(getFullYear(date, offset)) ELSE <<"N", "a", "N">>

(***************************************************************************)
(* fuzzyMatch: Jaccard similarity of the sets of words longer than 2.      *)
(***************************************************************************)
Words(str) == {w \in Range(split(str)) : Len(w) > 2}

fuzzyMatch(str1, str2) ==
    LET words1 == Words(str1)
        words2 == Words(str2)
    IN  IF words1 = {} /\ words2 = {} THEN <<1, 1>>
        ELSE IF words1 = {} \/ words2 = {} THEN <<0, 1>>
        ELSE Rat(Cardinality(words1 \cap words2), Cardinality(words1 \cup words2))

(***************************************************************************)
(* calculateSimilarity, one operator per weighted signal.  A signal is a   *)
(* record of what it adds to totalWeight and what it adds to score.        *)
(***************************************************************************)
NoSignal == [weight |-> 0, score |-> <<0, 1>>]

\* doiSignal comparing the DOIs without toLowerCase
doiSignal_CaseSensitive(reference, item) ==
    IF Truthy(reference.doi) /\ Truthy(item.doi)
    THEN [weight |-> 10,
          score |-> IF reference.doi = item.doi THEN <<10, 1>> ELSE <<0, 1>>]
    ELSE NoSignal

\* doiSignal with `totalWeight += 10` moved inside the test for equal DOIs
doiSignal_WeightOnMatch(reference, item) ==
    IF Truthy(reference.doi) /\ Truthy(item.doi)
          /\ toLowerCase(reference.doi) = toLowerCase(item.doi)
    THEN [weight |-> 10, score |-> <<10, 1>>]
    ELSE NoSignal

doiSignal(reference, item) ==
    IF Truthy(reference.doi) /\ Truthy(item.doi)
    THEN [weight |-> 10,
          score |-> IF toLowerCase(reference.doi) = toLowerCase(item.doi)
                    THEN <<10, 1>> ELSE <<0, 1>>]
    ELSE NoSignal

yearSignal(reference, item, offset) ==
    IF Truthy(reference.year) /\ Truthy(item.date)
    THEN [weight |-> 2,
          score |-> IF reference.year = DateYearString(item.date, offset)
                    THEN <<2, 1>> ELSE <<0, 1>>]
    ELSE NoSignal

titleSignal(reference, item) ==
    IF Truthy(reference.title) /\ Truthy(item.title)
    THEN [weight |-> 5,
          score |-> RMul(fuzzyMatch(normalizeString(reference.title),
                                    normalizeString(item.title)), <<5, 1>>)]
    ELSE NoSignal

\* `${c.lastName} ${c.firstName}`.toLowerCase(): an absent firstName is
\* interpolated as the text "undefined"
creatorText(c) ==
    toLowerCase(c.lastName \o <<" ">> \o
                (IF c.firstName = undefined
                 THEN <<"u", "n", "d", "e", "f", "i", "n", "e", "d">>
                 ELSE c.firstName))

\* item.creators.map(...).join(' ')
RECURSIVE joinCreators(_)
joinCreators(creators) ==
    IF creators = <<>> THEN <<>>
    ELSE IF Len(creators) = 1 THEN creatorText(creators[1])
    ELSE creatorText(creators[1]) \o <<" ">> \o joinCreators(Tail(creators))

itemAuthorsText(item) == joinCreators(item.creators)

\* firstAuthorScore with `score += 3` in place of `score += 1.5`
firstAuthorScore_FullWeight(reference, item) ==
    IF includes(normalizeString(reference.authors), toLowerCase(item.creators[1].lastName))
    THEN <<3, 1>> ELSE <<0, 1>>

\* the first-author part of the author signal (weight 1.5 of 3)
firstAuthorScore(reference, item) ==
    IF includes(normalizeString(reference.authors), toLowerCase(item.creators[1].lastName))
    THEN <<3, 2>> ELSE <<0, 1>>

\* the fuzzy part of the author signal (weight 1.5 of 3)
authorFuzzyScore(reference, item) ==
    RMul(fuzzyMatch(normalizeString(reference.authors), itemAuthorsText(item)), <<3, 2>>)

\* item.creators is always an array (ReferenceItem.creators is not optional),
\* so the test `item.creators &&` always passes
authorSignal(reference, item) ==
    IF Truthy(reference.authors) /\ Len(item.creators) > 0
    THEN [weight |-> 3,
          score |-> RAdd(firstAuthorScore(reference, item), authorFuzzyScore(reference, item))]
    ELSE NoSignal

Signals(reference, item, offset) ==
    <<doiSignal(reference, item), yearSignal(reference, item, offset),
      titleSignal(reference, item), authorSignal(reference, item)>>

\* the final values of the locals totalWeight and score
totalWeightOf(sig) == sig[1].weight + sig[2].weight + sig[3].weight + sig[4].weight

scoreOf(sig) == RAdd(RAdd(sig[1].score, sig[2].score), RAdd(sig[3].score, sig[4].score))

\* calculateSimilarity returning 1 where no signal is applicable
calculateSimilarity_OneWhenEmpty(reference, item, offset) ==
    LET sig == Signals(reference, item, offset)
        totalWeight == totalWeightOf(sig)
    IN  IF totalWeight = 0 THEN <<1, 1>>
        ELSE RMul(scoreOf(sig), <<1, totalWeight>>)

calculateSimilarity(reference, item, offset) ==
    LET sig == Signals(reference, item, offset)
        totalWeight == totalWeightOf(sig)
    IN  IF totalWeight = 0 THEN <<0, 1>>
        ELSE RMul(scoreOf(sig), <<1, totalWeight>>)

\* A TypeError is raised exactly where the code dereferences a value that is
\* undefined: firstAuthor.lastName.toLowerCase() inside the author branch.
calculateSimilarityThrows(reference, item) ==
    /\ Truthy(reference.authors) /\ Len(item.creators) > 0
    /\ item.creators[1].lastName = undefined

(***************************************************************************)
(* findMatchingItems and matchReferencesToLibrary.                         *)
(***************************************************************************)
\* AboveThreshold with `similarity > 0.5`
AboveThreshold_Strict(similarity) == RLess(<<1, 2>>, similarity)

\* similarity >= 0.5
AboveThreshold(similarity) == RLeq(<<1, 2>>, similarity)

\* the for loop of findMatchingItems: the qualifying candidates, in input order
RECURSIVE CollectMatches(_, _, _, _)
CollectMatches(reference, items, offset, k) ==
    IF k > Len(items) THEN <<>>
    ELSE LET similarity == calculateSimilarity(reference, items[k], offset)
         IN  (IF AboveThreshold(similarity)
              THEN <<[itemId |-> items[k].id, similarity |-> similarity, item |-> items[k]]>>
              ELSE <<>>)
             \o CollectMatches(reference, items, offset, k + 1)

\* InsertMatch of a sort that is not stable: an element goes before its equals
RECURSIVE InsertMatch_Unstable(_, _)
InsertMatch_Unstable(sorted, m) ==
    IF sorted = <<>> THEN <<m>>
    ELSE IF RLeq(Head(sorted).similarity, m.similarity)
         THEN <<m>> \o sorted
         ELSE <<Head(sorted)>> \o InsertMatch_Unstable(Tail(sorted), m)

\* Array.prototype.sort with (a, b) => b.similarity - a.similarity: a stable
\* sort, so an element goes after every element that does not compare after it
RECURSIVE InsertMatch(_, _)
InsertMatch(sorted, m) ==
    IF sorted = <<>> THEN <<m>>
    ELSE IF RLess(Head(sorted).similarity, m.similarity)
         THEN <<m>> \o sorted
         ELSE <<Head(sorted)>> \o InsertMatch(Tail(sorted), m)

RECURSIVE SortMatches(_)
SortMatches(ms) ==
    IF ms = <<>> THEN <<>>
    ELSE InsertMatch(SortMatches(SubSeq(ms, 1, Len(ms) - 1)), ms[Len(ms)])

findMatchingItems(reference, items, offset) ==
    SortMatches(CollectMatches(reference, items, offset, 1))

\* SetMatches without the test `matches.length > 0`
SetMatches_Always(map, reference, found) ==
    [k \in DOMAIN map \cup {reference.index} |->
        IF k = reference.index THEN found ELSE map[k]]

\* if (matches.length > 0) matchMap.set(reference.index, matches)
SetMatches(map, reference, found) ==
    IF Len(found) > 0
    THEN [k \in DOMAIN map \cup {reference.index} |->
              IF k = reference.index THEN found ELSE map[k]]
    ELSE map

(***************************************************************************)
(* Input pools.  Every string is written out as its characters.            *)
(***************************************************************************)
DoiLower == <<"1", "0", ".", "1", "/", "a", "b">>        \* 10.1/ab
DoiUpper == <<"1", "0", ".", "1", "/", "A", "B">>        \* 10.1/AB
DoiOther == <<"1", "0", ".", "1", "/", "c", "d">>        \* 10.1/cd

Year2020 == <<"2", "0", "2", "0">>
Year2019 == <<"2", "0", "1", "9">>
DateJan1 == <<"2", "0", "2", "0", "-", "0", "1", "-", "0", "1">>        \* 2020-01-01
DateJun15 == <<"2", "0", "2", "0", "-", "0", "6", "-", "1", "5">>       \* 2020-06-15
DateDec31 == <<"2", "0", "1", "9", "-", "1", "2", "-", "3", "1">>       \* 2019-12-31
DateNone == <<"n", ".", "d", ".">>                                        \* n.d.

TitleDeepRef == <<"D", "e", "e", "p", " ", "N", "e", "t", "s", ".">>         \* Deep Nets.
TitleGraphRef == <<"G", "r", "a", "p", "h", " ", "N", "e", "t", "s">>        \* Graph Nets
TitleDeep == <<"D", "e", "e", "p", " ", "n", "e", "t", "s">>                 \* Deep nets
TitleDeepView == <<"D", "e", "e", "p", " ", "n", "e", "t", "s", ":", " ", "a", " ", "v", "i", "e", "w">>   \* Deep nets: a view

AuthorsSmith == <<"S", "m", "i", "t", "h", ",", " ", "J", ".">>                   \* Smith, J.
AuthorsONeil == <<"O", "'", "N", "e", "i", "l", ",", " ", "K", ".", " ", "a", "n", "d", " ", "S", "m", "i", "t", "h">>   \* O'Neil, K. and Smith
AuthorsLi == <<"L", "i">>

Creator(last, first) == [lastName |-> last, firstName |-> first]

CreatorSmithJohn == Creator(<<"S", "m", "i", "t", "h">>, <<"J", "o", "h", "n">>)
CreatorSmithEmpty == Creator(<<"S", "m", "i", "t", "h">>, <<>>)
CreatorSmithBare == Creator(<<"S", "M", "I", "T", "H">>, undefined)
CreatorONeil == Creator(<<"O", "'", "N", "e", "i", "l">>, <<"K">>)
CreatorLi == Creator(<<"L", "i">>, <<>>)

\* the runtime's local time zones, in minutes east of UTC
TZOffsets == {-300, 480}

Reference(index, doi, year, title, authors) ==
    [index |-> index, doi |-> doi, year |-> year, title |-> title, authors |-> authors]

Item(id, doi, date, title, creators) ==
    [id |-> id, doi |-> doi, date |-> date, title |-> title, creators |-> creators]

\* db.items.toArray() lists the items by primary key, so the item at position
\* k of the library carries the k-th id
ItemIds == <<"a", "b", "c", "d", "e">>

\* every combination of field values, for the checks of one (reference, item) pair
PairReferences ==
    {Reference(1, doi, year, title, authors) :
        doi \in {undefined, DoiLower, DoiUpper},
        year \in {undefined, Year2020, Year2019},
        title \in {undefined, TitleDeepRef, TitleGraphRef},
        authors \in {undefined, AuthorsSmith, AuthorsONeil, AuthorsLi}}

PairItems ==
    {Item(ItemIds[1], doi, date, title, creators) :
        doi \in {undefined, DoiLower, DoiUpper, DoiOther},
        date \in {undefined, Year2020, DateJan1, DateJun15, DateDec31, DateNone},
        title \in {<<>>, TitleDeep, TitleDeepView},
        creators \in {<<>>, <<CreatorSmithJohn>>, <<CreatorSmithBare>>,
                      <<CreatorONeil>>, <<CreatorLi, CreatorSmithBare>>}}

\* references and item contents for the checks of whole libraries
ListReferences ==
    { Reference(1, DoiLower, Year2020, TitleDeepRef, AuthorsSmith),
      Reference(2, undefined, Year2019, TitleGraphRef, undefined),
      Reference(1, undefined, Year2020, undefined, undefined) }

ListItems ==
    { Item(ItemIds[1], DoiUpper, DateJun15, TitleDeep, <<CreatorSmithEmpty>>),
      Item(ItemIds[1], DoiOther, DateJun15, TitleDeep, <<CreatorSmithEmpty>>),
      Item(ItemIds[1], undefined, Year2020, TitleDeepView, <<>>) }

SeqsUpTo(S, n) == UNION {[1..k -> S] : k \in 0..n}

WithIds(items) == [k \in 1..Len(items) |-> [items[k] EXCEPT !.id = ItemIds[k]]]

ReferenceLists == SeqsUpTo(ListReferences, MaxRefs)

ItemLists == {WithIds(items) : items \in SeqsUpTo(ListItems, MaxItems)}

(***************************************************************************)
(* The state machine: matchReferencesToLibrary runs over the references of *)
(* one document against the library, in a runtime whose time zone is tz.   *)
(*   references, libraryItems  the arguments                               *)
(*   cursor    position of the for loop over references                    *)
(*   matches   the value findMatchingItems returned in the last iteration  *)
(*   matchMap  the Map being built, a function from index to matches       *)
(*   pc        "loop" while the for loop runs, "done" once it has returned *)
(* The variables of parseReferences and extractReferencesFromPdf, which    *)
(* are modelled further down, stay idle while the matcher runs.            *)
(***************************************************************************)
\* parseReferences is not running
ParserIdle ==
    /\ referencesText = <<>>
    /\ strategy = 0
    /\ lines = <<>>
    /\ lineNo = 1
    /\ parsed = <<>>
    /\ ppc = "idle"

\* extractReferencesFromPdf is not running
ExtractorIdle ==
    /\ fullText = <<>>
    /\ refStart = -1
    /\ locator = "none"
    /\ extracted = <<>>
    /\ epc = "idle"

\* matchReferencesToLibrary is not running
MatcherIdle ==
    /\ references = <<>>
    /\ libraryItems = <<>>
    /\ tz = 0
    /\ pc = "idle"
    /\ cursor = 1
    /\ matchMap = <<>>
    /\ matches = <<>>

\* no deletion of a collection is running
NoDeletion == [root |-> "none", filterSeen |-> "none", stack |-> <<>>]

\* the page is not open and the database is empty
AppIdle ==
    /\ dbItems = <<>>
    /\ dbAttachments = {}
    /\ created = 0
    /\ collections = <<>>
    /\ activeFilter = "all"
    /\ selectedIds = {}
    /\ deletion = NoDeletion
    /\ formData = <<>>
    /\ citationMatches = <<>>
    /\ extraction = <<>>
    /\ activeAnalyses = {}
    /\ analyses = <<>>
    /\ isAnalyzing = FALSE

InitCommon ==
    /\ tz \in TZOffsets
    /\ pc = "loop"
    /\ cursor = 1
    /\ matchMap = <<>>
    /\ matches = <<>>
    /\ ParserIdle
    /\ ExtractorIdle
    /\ AppIdle

\* a document's references against a library
Init ==
    /\ references \in ReferenceLists
    /\ libraryItems \in ItemLists
    /\ InitCommon

\* one reference against a library of one item, over every combination of fields
PairInit ==
    /\ references \in {<<r>> : r \in PairReferences}
    /\ libraryItems \in {<<it>> : it \in PairItems}
    /\ InitCommon

\* one iteration of the for loop of matchReferencesToLibrary
MatchReference ==
    /\ pc = "loop"
    /\ cursor <= Len(references)
    /\ matches' = findMatchingItems(references[cursor], libraryItems, tz)
    /\ matchMap' = SetMatches(matchMap, references[cursor], matches')
    /\ cursor' = cursor + 1
    /\ UNCHANGED <<references, libraryItems, tz, pc, parserVars, extractorVars, appVars>>

\* return matchMap
ReturnMatchMap ==
    /\ pc = "loop"
    /\ cursor > Len(references)
    /\ pc' = "done"
    /\ UNCHANGED <<references, libraryItems, tz, cursor, matchMap, matches,
                   parserVars, extractorVars, appVars>>

Next == MatchReference \/ ReturnMatchMap

Spec == Init /\ [][Next]_vars

PairSpec == PairInit /\ [][Next]_vars

TypeOK ==
    /\ pc \in {"loop", "done"}
    /\ cursor \in 1..(Len(references) + 1)
    /\ Len(matches) <= Len(libraryItems)

(***************************************************************************)
(* Notions the properties are stated in.                                   *)
(***************************************************************************)
\* an optional string field carries data
Present(str) == str # undefined /\ Len(str) > 0

\* the reference handled by the last iteration, once an iteration has run
LastReference == references[cursor - 1]

\* x is a number of the interval [0, 1]
InUnitInterval(x) == x[2] > 0 /\ 0 <= x[1] /\ x[1] <= x[2]

\* x >= 1/2
AtLeastHalf(x) == 2 * x[1] >= x[2]

\* the position of the item with this id in the library
PositionOf(id) == CHOOSE k \in 1..Len(libraryItems) : libraryItems[k].id = id

\* two characters are the same letter, whatever their case
SameIgnoringCase(c, d) ==
    \/ c = d
    \/ c \in UpperSet /\ LowerOf[c] = d
    \/ d \in UpperSet /\ LowerOf[d] = c

\* two strings are equal ignoring letter case
EqualIgnoringCase(a, b) ==
    Len(a) = Len(b) /\ \A k \in 1..Len(a) : SameIgnoringCase(a[k], b[k])

\* no signal has data on both sides
NothingComparable(reference, item) ==
    /\ ~(Present(reference.doi) /\ Present(item.doi))
    /\ ~(Present(reference.year) /\ Present(item.date))
    /\ ~(Present(reference.title) /\ Present(item.title))
    /\ ~(Present(reference.authors) /\ Len(item.creators) > 0)

(***************************************************************************)
(* C1.  For every reference and every library item, whatever subset of     *)
(* their fields is present, calculateSimilarity returns s with 0 <= s <= 1.*)
(* Checked under PairSpec, over every combination of present and absent    *)
(* fields and every time zone.                                             *)
(***************************************************************************)
C1_SimilarityInUnitInterval ==
    pc = "done" =>
        \A n \in 1..Len(references) : \A k \in 1..Len(libraryItems) :
            InUnitInterval(calculateSimilarity(references[n], libraryItems[k], tz))

\* a pair with absent fields on both sides scored strictly between 0 and 1
C1_Witness ==
    /\ pc = "done"
    /\ references[1].doi = undefined
    /\ libraryItems[1].date = undefined
    /\ Len(matches) = 1
    /\ matches[1].similarity[1] < matches[1].similarity[2]

(***************************************************************************)
(* C2.  findMatchingItems returns exactly the candidates whose similarity  *)
(* to the reference is >= 0.5: every returned match is a candidate of the  *)
(* library with its own similarity, none is below 0.5, none at or above    *)
(* 0.5 is left out, and none is returned twice.                            *)
(***************************************************************************)
C2_ExactlyTheQualifying ==
    cursor > 1 =>
        /\ \A k \in 1..Len(libraryItems) :
              LET similarity == calculateSimilarity(LastReference, libraryItems[k], tz)
              IN  AtLeastHalf(similarity)
                    <=> \E m \in 1..Len(matches) :
                           /\ matches[m].itemId = libraryItems[k].id
                           /\ matches[m].item = libraryItems[k]
                           /\ matches[m].similarity = similarity
        /\ \A m \in 1..Len(matches) :
              \E k \in 1..Len(libraryItems) : matches[m].itemId = libraryItems[k].id
        /\ \A m1, m2 \in 1..Len(matches) : matches[m1].itemId = matches[m2].itemId => m1 = m2

\* a candidate at exactly 0.5 was returned and another candidate was left out
C2_Witness ==
    /\ cursor > 1
    /\ \E m \in 1..Len(matches) : matches[m].similarity = <<1, 2>>
    /\ Len(matches) < Len(libraryItems)

(***************************************************************************)
(* C3.  The sequence returned by findMatchingItems is ordered by           *)
(* non-increasing similarity, and matches of equal similarity keep the     *)
(* relative order their candidates had in the input list.                  *)
(***************************************************************************)
C3_SortedDescendingStable ==
    cursor > 1 =>
        \A a, b \in 1..Len(matches) :
            a < b =>
               /\ RLeq(matches[b].similarity, matches[a].similarity)
               /\ matches[a].similarity = matches[b].similarity
                     => PositionOf(matches[a].itemId) < PositionOf(matches[b].itemId)

\* two tied matches follow a better match that came later in the input
C3_Witness ==
    /\ cursor > 1
    /\ Len(matches) = 3
    /\ matches[2].similarity = matches[3].similarity
    /\ RLess(matches[2].similarity, matches[1].similarity)
    /\ PositionOf(matches[1].itemId) > PositionOf(matches[3].itemId)

(***************************************************************************)
(* C4.  In the map returned by matchReferencesToLibrary no key maps to an  *)
(* empty sequence, and the keys are exactly the indices of the references  *)
(* that have at least one qualifying match: a reference with zero          *)
(* qualifying matches adds no key.                                         *)
(***************************************************************************)
HasQualifyingMatch(reference) ==
    \E k \in 1..Len(libraryItems) :
        AtLeastHalf(calculateSimilarity(reference, libraryItems[k], tz))

C4_NoEmptyEntries ==
    pc = "done" =>
        /\ \A key \in DOMAIN matchMap : Len(matchMap[key]) > 0
        /\ DOMAIN matchMap =
              {references[n].index : n \in {n \in 1..Len(references) :
                                               HasQualifyingMatch(references[n])}}

\* of two references with different indices, one got a key and the other none
C4_Witness ==
    /\ pc = "done"
    /\ Len(references) = 2
    /\ Len(libraryItems) > 0
    /\ references[1].index # references[2].index
    /\ Cardinality(DOMAIN matchMap) = 1

(***************************************************************************)
(* C5.  The matcher never throws when optional fields are missing, and an  *)
(* absent field only removes its signal's weight from totalWeight and      *)
(* contributes nothing else to the score: totalWeight is the sum of the    *)
(* weights of the signals with data on both sides, and the similarity is   *)
(* what it is when every absent firstName is an empty name.                *)
(***************************************************************************)
\* the item with every absent firstName replaced by the empty string
WithEmptyFirstNames(item) ==
    [item EXCEPT !.creators =
        [k \in 1..Len(item.creators) |->
            IF item.creators[k].firstName = undefined
            THEN [item.creators[k] EXCEPT !.firstName = <<>>]
            ELSE item.creators[k]]]

ApplicableWeight(reference, item) ==
      (IF Present(reference.doi) /\ Present(item.doi) THEN 10 ELSE 0)
    + (IF Present(reference.year) /\ Present(item.date) THEN 2 ELSE 0)
    + (IF Present(reference.title) /\ Present(item.title) THEN 5 ELSE 0)
    + (IF Present(reference.authors) /\ Len(item.creators) > 0 THEN 3 ELSE 0)

C5_AbsentFieldContributesNothing ==
    pc = "done" =>
        \A n \in 1..Len(references) : \A k \in 1..Len(libraryItems) :
            /\ ~calculateSimilarityThrows(references[n], libraryItems[k])
            /\ totalWeightOf(Signals(references[n], libraryItems[k], tz))
                  = ApplicableWeight(references[n], libraryItems[k])
            /\ calculateSimilarity(references[n], libraryItems[k], tz)
                  = calculateSimilarity(references[n], WithEmptyFirstNames(libraryItems[k]), tz)

(***************************************************************************)
(* C6.  When reference.year and item.date are both present, the year       *)
(* signal contributes its full weight 2 exactly when reference.year equals *)
(* the calendar year written in the item's date string, and 0 otherwise.   *)
(***************************************************************************)
\* the year a date string writes: its four leading digits
WrittenYear(date) ==
    IF Len(date) >= 4 /\ IsDigits(SubSeq(date, 1, 4)) THEN SubSeq(date, 1, 4) ELSE undefined

C6_YearSignalFollowsWrittenYear ==
    pc = "done" =>
        \A n \in 1..Len(references) : \A k \in 1..Len(libraryItems) :
            Present(references[n].year) /\ Present(libraryItems[k].date) =>
                yearSignal(references[n], libraryItems[k], tz).score
                    = IF references[n].year = WrittenYear(libraryItems[k].date)
                      THEN <<2, 1>> ELSE <<0, 1>>

(***************************************************************************)
(* C7.  When reference.authors and item.creators are both non-empty, the   *)
(* first-author signal contributes its full weight 1.5 if and only if the  *)
(* reference's author text contains the last name of the item's first      *)
(* creator, compared case-insensitively.                                   *)
(***************************************************************************)
\* text contains sub, ignoring letter case
ContainsIgnoringCase(text, sub) ==
    \E k \in 0..(Len(text) - Len(sub)) :
        EqualIgnoringCase(SubSeq(text, k + 1, k + Len(sub)), sub)

C7_FirstAuthorIffContained ==
    pc = "done" =>
        \A n \in 1..Len(references) : \A k \in 1..Len(libraryItems) :
            Present(references[n].authors) /\ Len(libraryItems[k].creators) > 0 =>
                (firstAuthorScore(references[n], libraryItems[k]) = <<3, 2>>
                    <=> ContainsIgnoringCase(references[n].authors,
                                             libraryItems[k].creators[1].lastName))

(***************************************************************************)
(* C8.  Whenever reference.doi and item.doi are both present and equal     *)
(* ignoring letter case, the DOI signal contributes 10 of its weight 10 to *)
(* the score, whatever the values of all other fields.                     *)
(***************************************************************************)
C8_DoiFullContribution ==
    pc = "done" =>
        \A n \in 1..Len(references) : \A k \in 1..Len(libraryItems) :
            /\ Present(references[n].doi) /\ Present(libraryItems[k].doi)
            /\ EqualIgnoringCase(references[n].doi, libraryItems[k].doi)
            => /\ doiSignal(references[n], libraryItems[k]) = [weight |-> 10, score |-> <<10, 1>>]
               /\ RLeq(<<10, 1>>, scoreOf(Signals(references[n], libraryItems[k], tz)))

\* DOIs that differ in letter case only, every other comparable field disagreeing
C8_Witness ==
    /\ pc = "done"
    /\ references[1].doi = DoiLower
    /\ libraryItems[1].doi = DoiUpper
    /\ references[1].year = Year2019
    /\ libraryItems[1].date = DateJun15
    /\ references[1].title = TitleGraphRef
    /\ libraryItems[1].title = TitleDeep
    /\ references[1].authors = undefined
    /\ Len(matches) = 1
    /\ matches[1].similarity = <<35, 51>>

(***************************************************************************)
(* C9.  DOI dominance.  For a reference with a DOI and two library items   *)
(* that are identical except that one item's DOI is the reference's DOI    *)
(* and the other's is a different DOI, calculateSimilarity is strictly     *)
(* higher for the item with the matching DOI.  DOIs are compared as the    *)
(* DOI signal compares them, ignoring letter case: a string that differs   *)
(* from the reference's DOI in letter case only is the same DOI.           *)
(***************************************************************************)
DoiStrings == {DoiLower, DoiUpper, DoiOther}

C9_DoiDominance ==
    pc = "done" =>
        \A n \in 1..Len(references) : \A k \in 1..Len(libraryItems) :
            /\ Present(references[n].doi) /\ Present(libraryItems[k].doi)
            /\ EqualIgnoringCase(references[n].doi, libraryItems[k].doi)
            => \A other \in DoiStrings :
                  ~EqualIgnoringCase(references[n].doi, other) =>
                      RLess(calculateSimilarity(references[n],
                                                [libraryItems[k] EXCEPT !.doi = other], tz),
                            calculateSimilarity(references[n], libraryItems[k], tz))

\* the matching item is a perfect match on DOI, year and title, so the item
\* that differs in its DOI only scores 7/17 against 1
C9_Witness ==
    /\ pc = "done"
    /\ references[1].doi = DoiUpper
    /\ libraryItems[1].doi = DoiUpper
    /\ Len(matches) = 1
    /\ matches[1].similarity = <<1, 1>>
    /\ calculateSimilarity(references[1], [libraryItems[1] EXCEPT !.doi = DoiOther], tz)
          = <<7, 17>>

(***************************************************************************)
(* C10.  For every (reference, item) pair in which no signal is comparable *)
(* calculateSimilarity returns exactly 0 and the pair does not appear in   *)
(* the matcher's output.                                                   *)
(***************************************************************************)
C10_NothingComparableIsZero ==
    pc = "done" =>
        \A n \in 1..Len(references) : \A k \in 1..Len(libraryItems) :
            NothingComparable(references[n], libraryItems[k]) =>
                /\ calculateSimilarity(references[n], libraryItems[k], tz) = <<0, 1>>
                /\ \A key \in DOMAIN matchMap : \A m \in 1..Len(matchMap[key]) :
                      key = references[n].index => matchMap[key][m].itemId # libraryItems[k].id
                /\ Len(references) = 1 =>
                      \A m \in 1..Len(matches) : matches[m].itemId # libraryItems[k].id

\* both sides carry data, but never for the same signal
C10_Witness ==
    /\ pc = "done"
    /\ NothingComparable(references[1], libraryItems[1])
    /\ Present(references[1].doi) /\ Present(references[1].authors)
    /\ Present(libraryItems[1].date) /\ Present(libraryItems[1].title)
    /\ matches = <<>>
    /\ DOMAIN matchMap = {}

(***************************************************************************)
(* Reference extraction (src/lib/graphUtils.ts).                           *)
(*                                                                         *)
(* Positions are 1-based: the JavaScript offset k is the position k + 1.   *)
(* A regular expression is computed by the operators below, one per        *)
(* sub-pattern, each a search over positions of the string.                *)
(***************************************************************************)
\* the character at position k, or "" outside the string
At(str, k) == IF k \in 1..Len(str) THEN str[k] ELSE ""

SpaceSet == {" ", "\t", "\n", "\r"}

\* the line terminators, which . of a regular expression does not match
LineTerminators == {"\n", "\r"}

\* the least element of a non-empty set of integers
Min(S) == CHOOSE k \in S : \A m \in S : k <= m

\* str is found at position k of text
LiteralAt(text, k, str) ==
    /\ k >= 1
    /\ k + Len(str) - 1 <= Len(text)
    /\ \A m \in 1..Len(str) : text[k + m - 1] = str[m]

\* the position after the longest run of characters of class that starts at k
RunEnd(str, k, class) ==
    IF k > Len(str) THEN k
    ELSE CHOOSE j \in k..(Len(str) + 1) :
            /\ At(str, j) \notin class
            /\ \A m \in k..(j - 1) : str[m] \in class

\* the position after the longest run of characters outside excluded that starts at k
RunEndNot(str, k, excluded) ==
    IF k > Len(str) THEN k
    ELSE CHOOSE j \in k..(Len(str) + 1) :
            /\ (j > Len(str) \/ str[j] \in excluded)
            /\ \A m \in k..(j - 1) : str[m] \notin excluded

\* String.prototype.substring(0, n)
substring(str, n) == IF Len(str) <= n THEN str ELSE SubSeq(str, 1, n)

\* String.prototype.substring(k) for the offset k
substringFrom(str, k) == IF k >= Len(str) THEN <<>> ELSE SubSeq(str, k + 1, Len(str))

\* String.prototype.indexOf: the offset of the first occurrence, or -1
indexOf(text, str) ==
    LET found == {k \in 1..(Len(text) - Len(str) + 1) : LiteralAt(text, k, str)}
    IN  IF found = {} THEN -1 ELSE Min(found) - 1

\* \b\d{4}\b matches at position k
YearTokenAt(str, k) ==
    /\ \A m \in k..(k + 3) : At(str, m) \in DigitSet
    /\ At(str, k - 1) \notin WordChars
    /\ At(str, k + 4) \notin WordChars

\* /\b\d{4}\b/.test(str)
HasYearToken(str) == \E k \in 1..(Len(str) - 3) : YearTokenAt(str, k)

(***************************************************************************)
(* REFERENCE_NUMBER_PATTERNS: the citation marker at the start of a        *)
(* trimmed segment.  A match is the captured digits and the position after *)
(* the whole match; NoMarker stands for a null match.                      *)
(***************************************************************************)
NoMarker == [matched |-> FALSE, digits |-> <<>>, end |-> 1]

Marker(digits, end) == [matched |-> TRUE, digits |-> digits, end |-> end]

\* /^\[(\d+)\]\s*/
BracketMarker(str) ==
    LET e == RunEnd(str, 2, DigitSet)
    IN  IF At(str, 1) = "[" /\ e > 2 /\ At(str, e) = "]"
        THEN Marker(SubSeq(str, 2, e - 1), RunEnd(str, e + 1, SpaceSet))
        ELSE NoMarker

\* /^(\d+)\.\s+/
DotMarker(str) ==
    LET e == RunEnd(str, 1, DigitSet)
    IN  IF e > 1 /\ At(str, e) = "." /\ At(str, e + 1) \in SpaceSet
        THEN Marker(SubSeq(str, 1, e - 1), RunEnd(str, e + 1, SpaceSet))
        ELSE NoMarker

\* /^\((\d+)\)\s*/
ParenMarker(str) ==
    LET e == RunEnd(str, 2, DigitSet)
    IN  IF At(str, 1) = "(" /\ e > 2 /\ At(str, e) = ")"
        THEN Marker(SubSeq(str, 2, e - 1), RunEnd(str, e + 1, SpaceSet))
        ELSE NoMarker

\* /^(\d+)\s+/
BareMarker(str) ==
    LET e == RunEnd(str, 1, DigitSet)
    IN  IF e > 1 /\ At(str, e) \in SpaceSet
        THEN Marker(SubSeq(str, 1, e - 1), RunEnd(str, e, SpaceSet))
        ELSE NoMarker

\* the patterns without the fourth, /^(\d+)\s+/
REFERENCE_NUMBER_PATTERNS_NoBare(str) ==
    IF BracketMarker(str).matched THEN BracketMarker(str)
    ELSE IF DotMarker(str).matched THEN DotMarker(str)
    ELSE ParenMarker(str)

\* the match of the first pattern of REFERENCE_NUMBER_PATTERNS that matches
REFERENCE_NUMBER_PATTERNS(str) ==
    IF BracketMarker(str).matched THEN BracketMarker(str)
    ELSE IF DotMarker(str).matched THEN DotMarker(str)
    ELSE IF ParenMarker(str).matched THEN ParenMarker(str)
    ELSE BareMarker(str)

\* parseInt(str, 10) of a string of digits
parseInt(str) == ParseDigits(str)

\* trimmed.replace(pattern, '').trim()
StripMarker(trimmed, marker) == trim(SubSeq(trimmed, marker.end, Len(trimmed)))

(***************************************************************************)
(* DOI_REGEX = /10\.\d{4,9}\/[-._;()/:A-Z0-9]+/gi                          *)
(***************************************************************************)
DoiChars == UpperSet \cup LowerSet \cup DigitSet \cup {"-", ".", "_", ";", "(", ")", "/", ":"}

\* the position after the match of DOI_REGEX that starts at k, or 0
DoiEndAt(str, k) ==
    LET d == RunEnd(str, k + 3, DigitSet)
        e == RunEnd(str, d + 1, DoiChars)
    IN  IF /\ At(str, k) = "1" /\ At(str, k + 1) = "0" /\ At(str, k + 2) = "."
           /\ d - (k + 3) >= 4 /\ d - (k + 3) <= 9
           /\ At(str, d) = "/"
           /\ e > d + 1
        THEN e ELSE 0

\* text.match(DOI_REGEX)[0], or undefined when there is no match
FirstDoi(text) ==
    LET starts == {k \in 1..Len(text) : DoiEndAt(text, k) # 0}
    IN  IF starts = {} THEN undefined
        ELSE SubSeq(text, Min(starts), DoiEndAt(text, Min(starts)) - 1)

(***************************************************************************)
(* The year of a reference text.                                           *)
(***************************************************************************)
\* /\((\d{4})\)/ matches at k
YearParenAt(str, k) ==
    /\ At(str, k) = "("
    /\ \A m \in (k + 1)..(k + 4) : At(str, m) \in DigitSet
    /\ At(str, k + 5) = ")"

\* /,\s+(\d{4})\./ matches at k; the digits start at the position returned, or 0
YearPeriodAt(str, k) ==
    LET e == RunEnd(str, k + 1, SpaceSet)
    IN  IF /\ At(str, k) = ","
           /\ e > k + 1
           /\ \A m \in e..(e + 3) : At(str, m) \in DigitSet
           /\ At(str, e + 4) = "."
        THEN e ELSE 0

\* yearMatchParen ? ... : (yearMatchPeriod ? ... : (yearMatchAny ? ... : undefined))
ExtractYear(text) ==
    LET paren == {k \in 1..Len(text) : YearParenAt(text, k)}
        period == {k \in 1..Len(text) : YearPeriodAt(text, k) # 0}
        any == {k \in 1..(Len(text) - 3) : YearTokenAt(text, k)}
    IN  IF paren # {} THEN SubSeq(text, Min(paren) + 1, Min(paren) + 4)
        ELSE IF period # {}
             THEN SubSeq(text, YearPeriodAt(text, Min(period)), YearPeriodAt(text, Min(period)) + 3)
        ELSE IF any # {} THEN SubSeq(text, Min(any), Min(any) + 3)
        ELSE undefined

(***************************************************************************)
(* The title: text.match(new RegExp(                                       *)
(*   `${year}[).]*\\s+["']?([^."]{10,150})["']?(?:\\.|In:)`))              *)
(* A way to match from a given occurrence of the year is <<b, q, e>>: \s+  *)
(* ends before position b, the opening quote is taken (q = 1) or not       *)
(* (q = 0), and the captured group ends before position e.  Backtracking   *)
(* prefers the longest \s+, then the quote taken, then the longest group.  *)
(***************************************************************************)
Quotes == {"\"", "'"}

\* ["']?(?:\.|In:) matches at k
TitleTailAt(text, k) ==
    LET TailAt(j) == At(text, j) = "." \/ LiteralAt(text, j, <<"I", "n", ":">>)
    IN  (At(text, k) \in Quotes /\ TailAt(k + 1)) \/ TailAt(k)

TitleWaysAt(text, k) ==
    LET a == RunEnd(text, k + 4, {")", "."})
        w == RunEnd(text, a, SpaceSet)
    IN  UNION {UNION {LET c == b + q
                          m == RunEndNot(text, c, {".", "\""})
                          last == IF m < c + 150 THEN m ELSE c + 150
                      IN  IF q = 1 /\ At(text, b) \notin Quotes THEN {}
                          ELSE {<<b, q, e>> : e \in {j \in (c + 10)..last : TitleTailAt(text, j)}}
                      : q \in {0, 1}}
               : b \in (a + 1)..w}

\* the way x is tried before the way y
TriedBefore(x, y) ==
    \/ x[1] > y[1]
    \/ x[1] = y[1] /\ x[2] > y[2]
    \/ x[1] = y[1] /\ x[2] = y[2] /\ x[3] >= y[3]

\* afterYearMatch[1].trim().substring(0, 200), or undefined when there is no match
ExtractTitle(text, year) ==
    LET starts == {k \in 1..Len(text) : LiteralAt(text, k, year) /\ TitleWaysAt(text, k) # {}}
    IN  IF starts = {} THEN undefined
        ELSE LET ways == TitleWaysAt(text, Min(starts))
                 way == CHOOSE x \in ways : \A y \in ways : TriedBefore(x, y)
             IN  substring(trim(SubSeq(text, way[1] + way[2], way[3] - 1)), 200)

(***************************************************************************)
(* The authors: text.match(new RegExp(                                     *)
(*   `(.+?)(?:\\(${year}\\)|,?\\s+${year}[.)])`))                          *)
(***************************************************************************)
\* (?:\(year\)|,?\s+year[.)]) matches at k
AuthorsEndAt(text, k, year) ==
    \/ At(text, k) = "(" /\ LiteralAt(text, k + 1, year) /\ At(text, k + 5) = ")"
    \/ LET s == IF At(text, k) = "," THEN k + 1 ELSE k
           e == RunEnd(text, s, SpaceSet)
       IN  e > s /\ LiteralAt(text, e, year) /\ At(text, e + 4) \in {".", ")"}

\* authorMatch[1]: the lazy group (.+?) from the leftmost start, or undefined
AuthorsCapture(text, year) ==
    LET ends == {k \in 2..Len(text) : AuthorsEndAt(text, k, year)}
        EndsFrom(s) == {k \in ends : k > s /\ \A m \in s..(k - 1) : text[m] \notin LineTerminators}
        Starts(s) == EndsFrom(s) # {}
    IN  IF \E s \in 1..Len(text) : Starts(s)
        THEN LET s == CHOOSE s \in 1..Len(text) : Starts(s) /\ \A r \in 1..(s - 1) : ~Starts(r)
             IN  SubSeq(text, s, Min(EndsFrom(s)) - 1)
        ELSE undefined

\* .replace(/^(and\s+|from\s+)?/, '')
StripLeadingWord(str) ==
    IF LiteralAt(str, 1, <<"a", "n", "d">>) /\ At(str, 4) \in SpaceSet
    THEN SubSeq(str, RunEnd(str, 4, SpaceSet), Len(str))
    ELSE IF LiteralAt(str, 1, <<"f", "r", "o", "m">>) /\ At(str, 5) \in SpaceSet
    THEN SubSeq(str, RunEnd(str, 5, SpaceSet), Len(str))
    ELSE str

\* the authors before the sanity check
ExtractAuthors(text, year) ==
    LET capture == AuthorsCapture(text, year)
    IN  IF capture = undefined THEN undefined
        ELSE substring(trim(CollapseSpaces(StripLeadingWord(capture))), 250)

\* if (authors && (authors.length < 3 || /^\d/.test(authors))) authors = undefined
SanityCheckAuthors(authors) ==
    IF Truthy(authors) /\ (Len(authors) < 3 \/ At(authors, 1) \in DigitSet)
    THEN undefined ELSE authors

(***************************************************************************)
(* The segmenter of parseReferences: String.prototype.split on a lookahead *)
(* cuts the text before every position after the first where the lookahead *)
(* matches, and .filter(l => l.trim()) drops the blank pieces.             *)
(***************************************************************************)
\* the pieces of text that start at position 1 and at the positions of cuts
SplitAtCuts(text, cuts) ==
    LET starts == {1} \cup cuts
        n == Cardinality(starts)
        nth(i) == CHOOSE c \in starts : Cardinality({d \in starts : d < c}) = i - 1
    IN  [i \in 1..n |-> SubSeq(text, nth(i), IF i = n THEN Len(text) ELSE nth(i + 1) - 1)]

\* .filter(l => l.trim())
FilterBlank(pieces) == SelectSeq(pieces, LAMBDA l : trim(l) # <<>>)

\* \d+ followed by the character c matches at k
DigitsThenAt(text, k, c) ==
    LET e == RunEnd(text, k, DigitSet) IN e > k /\ At(text, e) = c

\* (?:^|\n) matches at k: the positions where what follows it starts (^ is
\* the start of the string only)
LineStartThen(text, k) ==
    {j \in {k} : k = 1} \cup {j \in {k + 1} : At(text, k) = "\n"}

\* \[\d+\]|(?:^|\n)\d+\.|(?:^|\n)\(\d+\) matches at k
NumberedAt(text, k) ==
    \/ At(text, k) = "[" /\ DigitsThenAt(text, k + 1, "]")
    \/ \E j \in LineStartThen(text, k) : DigitsThenAt(text, j, ".")
    \/ \E j \in LineStartThen(text, k) : At(text, j) = "(" /\ DigitsThenAt(text, j + 1, ")")

\* [A-Z][a-z]{minLower,},\s+[A-Z]\. matches at k: the position after it, or 0
AuthorHeadAt(text, k, minLower) ==
    LET l == RunEnd(text, k + 1, LowerSet)
        s == RunEnd(text, l + 1, SpaceSet)
    IN  IF /\ At(text, k) \in UpperSet
           /\ l - (k + 1) >= minLower
           /\ At(text, l) = ","
           /\ s > l + 1
           /\ At(text, s) \in UpperSet
           /\ At(text, s + 1) = "."
        THEN s + 2 ELSE 0

\* [^.]{0,100}? matches from position k: the positions where what follows it
\* can start
WithinHundred(text, k) ==
    LET r == RunEndNot(text, k, {"."})
        last == IF r < k + 100 THEN r ELSE k + 100
    IN  k..last

\* (?:^|\s)[A-Z][a-z]+,\s+[A-Z]\.[^.]{0,100}?\(\d{4}\) matches at k
AuthorYearParenAt(text, k) ==
    LET Body(j) == LET h == AuthorHeadAt(text, j, 1)
                   IN  h # 0 /\ \E m \in WithinHundred(text, h) : YearParenAt(text, m)
    IN  (k = 1 /\ Body(k)) \/ (At(text, k) \in SpaceSet /\ Body(k + 1))

\* (?:^|\s)[A-Z][a-z]{2,},\s+[A-Z]\.[^.]{0,100}?,\s+\d{4}\. matches at k
AuthorYearPeriodAt(text, k) ==
    LET Body(j) == LET h == AuthorHeadAt(text, j, 2)
                   IN  h # 0 /\ \E m \in WithinHundred(text, h) : YearPeriodAt(text, m) # 0
    IN  (k = 1 /\ Body(k)) \/ (At(text, k) \in SpaceSet /\ Body(k + 1))

\* \s[A-Z][a-z]{2,},\s+[A-Z]\. matches at k
AuthorStartAt(text, k) ==
    At(text, k) \in SpaceSet /\ AuthorHeadAt(text, k + 1, 2) # 0

\* the segments the n-th splitting strategy gives
StrategyLines(text, n) ==
    LET Matches(k) == CASE n = 1 -> NumberedAt(text, k)
                        [] n = 2 -> AuthorYearParenAt(text, k)
                        [] n = 3 -> AuthorYearPeriodAt(text, k)
                        [] n = 4 -> AuthorStartAt(text, k)
    IN  FilterBlank(SplitAtCuts(text, {k \in 2..Len(text) : Matches(k)}))

\* the strategy of parseReferences whose segments are used
StrategyUsed(text) ==
    IF Len(StrategyLines(text, 1)) >= 3 THEN 1
    ELSE IF Len(StrategyLines(text, 2)) >= 3 THEN 2
    ELSE IF Len(StrategyLines(text, 3)) >= 3 THEN 3
    ELSE 4

\* the value of lines when the for loop of parseReferences starts
SegmentLines(text) == StrategyLines(text, StrategyUsed(text))

(***************************************************************************)
(* One iteration of the for loop of parseReferences.                       *)
(***************************************************************************)
ParsedReference(index, text, doi, authors, title, year) ==
    [index |-> index, text |-> text, doi |-> doi, authors |-> authors,
     title |-> title, year |-> year]

\* the iteration ends with continue
Skipped == [pushed |-> FALSE]

\* the iteration ends with references.push(reference)
Pushed(reference) == [pushed |-> TRUE, reference |-> reference]

\* the validation with the upper limit excluded
LengthRejected_Exclusive(trimmed) == trimmed = <<>> \/ Len(trimmed) < 20 \/ Len(trimmed) >= 1000

\* if (!trimmed || trimmed.length < 20 || trimmed.length > 1000) continue
LengthRejected(trimmed) == trimmed = <<>> \/ Len(trimmed) < 20 \/ Len(trimmed) > 1000

\* the body of the loop without the statement if (!year) continue
ParseLine_NoYearCheck(line, count) ==
    LET trimmed == trim(line)
        marker == REFERENCE_NUMBER_PATTERNS(trimmed)
        index == IF marker.matched THEN parseInt(marker.digits) ELSE count + 1
        text == IF marker.matched THEN StripMarker(trimmed, marker) ELSE trimmed
        doi == FirstDoi(text)
        year == ExtractYear(text)
        title == IF Truthy(year) THEN ExtractTitle(text, year) ELSE undefined
        authors == IF Truthy(year) THEN ExtractAuthors(text, year) ELSE undefined
    IN  IF LengthRejected(trimmed) THEN Skipped
        ELSE IF ~HasYearToken(trimmed) THEN Skipped
        ELSE Pushed(ParsedReference(index, substring(text, 500), doi,
                                    SanityCheckAuthors(authors), title, year))

\* the body of the loop for the segment line when count references are accepted
ParseLine(line, count) ==
    LET trimmed == trim(line)
        marker == REFERENCE_NUMBER_PATTERNS(trimmed)
        index == IF marker.matched THEN parseInt(marker.digits) ELSE count + 1
        text == IF marker.matched THEN StripMarker(trimmed, marker) ELSE trimmed
        doi == FirstDoi(text)
        year == ExtractYear(text)
        title == IF Truthy(year) THEN ExtractTitle(text, year) ELSE undefined
        authors == IF Truthy(year) THEN ExtractAuthors(text, year) ELSE undefined
    IN  IF LengthRejected(trimmed) THEN Skipped
        ELSE IF ~HasYearToken(trimmed) THEN Skipped
        ELSE IF ~Truthy(year) THEN Skipped
        ELSE Pushed(ParsedReference(index, substring(text, 500), doi,
                                    SanityCheckAuthors(authors), title, year))

\* references after the iteration for the segment line
AfterLine(acc, line) ==
    LET outcome == ParseLine(line, Len(acc))
    IN  IF outcome.pushed THEN Append(acc, outcome.reference) ELSE acc

RECURSIVE ParseLinesFrom(_, _, _)
ParseLinesFrom(segments, k, acc) ==
    IF k > Len(segments) THEN acc
    ELSE ParseLinesFrom(segments, k + 1, AfterLine(acc, segments[k]))

\* parseReferences as a function of its argument
parseReferences(text) == ParseLinesFrom(SegmentLines(text), 1, <<>>)

(***************************************************************************)
(* The texts parseReferences is run on.  The text of a PDF reaches it with *)
(* every run of white space inside a page collapsed to one space, so the   *)
(* segments of a text are joined by single spaces and hold no line break.  *)
(***************************************************************************)
MaxSegments == 3

\* [1] Smith, J. (2020). Deep learning for graphs. Nature.
SegSmith ==
    <<"[", "1", "]", " ", "S", "m", "i", "t", "h", ",", " ", "J", ".", " ", "(", "2", "0", "2",
      "0", ")", ".", " ", "D", "e", "e", "p", " ", "l", "e", "a", "r", "n", "i", "n", "g", " ",
      "f", "o", "r", " ", "g", "r", "a", "p", "h", "s", ".", " ", "N", "a", "t", "u", "r", "e",
      ".">>

\* [2] Lee, K. and Park, S. Graph neural networks, 2019. doi:10.1234/abcd
SegLee ==
    <<"[", "2", "]", " ", "L", "e", "e", ",", " ", "K", ".", " ", "a", "n", "d", " ", "P", "a",
      "r", "k", ",", " ", "S", ".", " ", "G", "r", "a", "p", "h", " ", "n", "e", "u", "r", "a",
      "l", " ", "n", "e", "t", "w", "o", "r", "k", "s", ",", " ", "2", "0", "1", "9", ".", " ",
      "d", "o", "i", ":", "1", "0", ".", "1", "2", "3", "4", "/", "a", "b", "c", "d">>

\* [0] Chen, L. (2018). Attention for everyone. ICML.
SegZero ==
    <<"[", "0", "]", " ", "C", "h", "e", "n", ",", " ", "L", ".", " ", "(", "2", "0", "1", "8",
      ")", ".", " ", "A", "t", "t", "e", "n", "t", "i", "o", "n", " ", "f", "o", "r", " ", "e",
      "v", "e", "r", "y", "o", "n", "e", ".", " ", "I", "C", "M", "L", ".">>

\* [2021] A note without a year in its text
SegYearMarker ==
    <<"[", "2", "0", "2", "1", "]", " ", "A", " ", "n", "o", "t", "e", " ", "w", "i", "t", "h",
      "o", "u", "t", " ", "a", " ", "y", "e", "a", "r", " ", "i", "n", " ", "i", "t", "s", " ",
      "t", "e", "x", "t">>

\* [4] and (2017). Learning to rank things. Journal.
SegAnd ==
    <<"[", "4", "]", " ", "a", "n", "d", " ", "(", "2", "0", "1", "7", ")", ".", " ", "L", "e",
      "a", "r", "n", "i", "n", "g", " ", "t", "o", " ", "r", "a", "n", "k", " ", "t", "h", "i",
      "n", "g", "s", ".", " ", "J", "o", "u", "r", "n", "a", "l", ".">>

\* [5] Li (2016). Tiny names in science. Journal.
SegLi ==
    <<"[", "5", "]", " ", "L", "i", " ", "(", "2", "0", "1", "6", ")", ".", " ", "T", "i", "n",
      "y", " ", "n", "a", "m", "e", "s", " ", "i", "n", " ", "s", "c", "i", "e", "n", "c", "e",
      ".", " ", "J", "o", "u", "r", "n", "a", "l", ".">>

\* [6] 3M Corp (2015). Sticky notes research. Journal
SegDigit ==
    <<"[", "6", "]", " ", "3", "M", " ", "C", "o", "r", "p", " ", "(", "2", "0", "1", "5", ")",
      ".", " ", "S", "t", "i", "c", "k", "y", " ", "n", "o", "t", "e", "s", " ", "r", "e", "s",
      "e", "a", "r", "c", "h", ".", " ", "J", "o", "u", "r", "n", "a", "l">>

\* [7] Kim (2014). Abcd
SegTwenty ==
    <<"[", "7", "]", " ", "K", "i", "m", " ", "(", "2", "0", "1", "4", ")", ".", " ", "A", "b",
      "c", "d">>

\* [7] Kim (2014). Abc
SegNineteen ==
    <<"[", "7", "]", " ", "K", "i", "m", " ", "(", "2", "0", "1", "4", ")", ".", " ", "A", "b",
      "c">>

\* [8] A segment without any year at all.
SegNoYear ==
    <<"[", "8", "]", " ", "A", " ", "s", "e", "g", "m", "e", "n", "t", " ", "w", "i", "t", "h",
      "o", "u", "t", " ", "a", "n", "y", " ", "y", "e", "a", "r", " ", "a", "t", " ", "a", "l",
      "l", ".">>

\* Smith, J. (2020). Deep learning for graphs. Nature.
SegPlainSmith ==
    <<"S", "m", "i", "t", "h", ",", " ", "J", ".", " ", "(", "2", "0", "2", "0", ")", ".", " ",
      "D", "e", "e", "p", " ", "l", "e", "a", "r", "n", "i", "n", "g", " ", "f", "o", "r", " ",
      "g", "r", "a", "p", "h", "s", ".", " ", "N", "a", "t", "u", "r", "e", ".">>

\* Jones, A. Graph theory for all, 2019. Springer.
SegPlainJones ==
    <<"J", "o", "n", "e", "s", ",", " ", "A", ".", " ", "G", "r", "a", "p", "h", " ", "t", "h",
      "e", "o", "r", "y", " ", "f", "o", "r", " ", "a", "l", "l", ",", " ", "2", "0", "1", "9",
      ".", " ", "S", "p", "r", "i", "n", "g", "e", "r", ".">>

\* Brown, T. On the nature of things 2018 Wiley
SegPlainBrown ==
    <<"B", "r", "o", "w", "n", ",", " ", "T", ".", " ", "O", "n", " ", "t", "h", "e", " ", "n",
      "a", "t", "u", "r", "e", " ", "o", "f", " ", "t", "h", "i", "n", "g", "s", " ", "2", "0",
      "1", "8", " ", "W", "i", "l", "e", "y">>

\* 12 Kumar R. (2017). Ranking with markers. Journal.
SegBare ==
    <<"1", "2", " ", "K", "u", "m", "a", "r", " ", "R", ".", " ", "(", "2", "0", "1", "7", ")",
      ".", " ", "R", "a", "n", "k", "i", "n", "g", " ", "w", "i", "t", "h", " ", "m", "a", "r",
      "k", "e", "r", "s", ".", " ", "J", "o", "u", "r", "n", "a", "l", ".">>

\* 3. Perez M. (2016). Dotted markers here. Journal.
SegDot ==
    <<"3", ".", " ", "P", "e", "r", "e", "z", " ", "M", ".", " ", "(", "2", "0", "1", "6", ")",
      ".", " ", "D", "o", "t", "t", "e", "d", " ", "m", "a", "r", "k", "e", "r", "s", " ", "h",
      "e", "r", "e", ".", " ", "J", "o", "u", "r", "n", "a", "l", ".">>

\* 7.Perez M. (2016). Dotted markers here. Journal.
SegDotTight ==
    <<"7", ".", "P", "e", "r", "e", "z", " ", "M", ".", " ", "(", "2", "0", "1", "6", ")", ".",
      " ", "D", "o", "t", "t", "e", "d", " ", "m", "a", "r", "k", "e", "r", "s", " ", "h", "e",
      "r", "e", ".", " ", "J", "o", "u", "r", "n", "a", "l", ".">>

\* 2020 Annual report of the society. Springer.
SegYearFirst ==
    <<"2", "0", "2", "0", " ", "A", "n", "n", "u", "a", "l", " ", "r", "e", "p", "o", "r", "t",
      " ", "o", "f", " ", "t", "h", "e", " ", "s", "o", "c", "i", "e", "t", "y", ".", " ", "S",
      "p", "r", "i", "n", "g", "e", "r", ".">>

\* (4) Ito H. (2015). Round markers in use. Journal.
SegParen ==
    <<"(", "4", ")", " ", "I", "t", "o", " ", "H", ".", " ", "(", "2", "0", "1", "5", ")", ".",
      " ", "R", "o", "u", "n", "d", " ", "m", "a", "r", "k", "e", "r", "s", " ", "i", "n", " ",
      "u", "s", "e", ".", " ", "J", "o", "u", "r", "n", "a", "l", ".">>
\* n copies of the character c
Repeat(c, n) == [k \in 1..n |-> c]

\* a reference of the given length: the longest accepted is 1000 characters long
SegOfLength(n) ==
    LET head == SegSmith \o <<" ">> IN head \o Repeat("x", n - Len(head))

\* the segments of a numbered reference list
NumberedSegments == {SegSmith, SegLee, SegZero, SegYearMarker, SegAnd, SegLi}

\* the segments of an author-year reference list
UnnumberedSegments == {SegPlainSmith, SegPlainJones, SegPlainBrown, SegBare}

\* segments at the limits of the validation, and the markers only a text can start with
BoundarySegments ==
    {SegDigit, SegTwenty, SegNineteen, SegNoYear, SegDot, SegDotTight, SegParen, SegYearFirst,
     SegOfLength(1000), SegOfLength(1001)}

\* Array.prototype.join(' ')
RECURSIVE JoinSegments(_)
JoinSegments(segments) ==
    IF segments = <<>> THEN <<>>
    ELSE IF Len(segments) = 1 THEN segments[1]
    ELSE segments[1] \o <<" ">> \o JoinSegments(Tail(segments))

ParseTexts ==
    {JoinSegments(s) : s \in SeqsUpTo(NumberedSegments, MaxSegments)}
    \cup {JoinSegments(s) : s \in SeqsUpTo(UnnumberedSegments, MaxSegments)}
    \cup BoundarySegments
    \cup {JoinSegments(<<SegSmith, s, SegLee>>) : s \in BoundarySegments}

(***************************************************************************)
(* The state machine of parseReferences(referencesText).                   *)
(*   strategy  the number of the splitting strategy applied last           *)
(*   lines     the segments it gave                                        *)
(*   lineNo    position of the for loop over lines                         *)
(*   parsed    the array references being built                            *)
(*   ppc       "split" while the strategies are tried, "loop" while the    *)
(*             for loop runs, "done" once the function has returned        *)
(***************************************************************************)
ParseInit ==
    /\ referencesText \in ParseTexts
    /\ strategy = 0
    /\ lines = <<>>
    /\ lineNo = 1
    /\ parsed = <<>>
    /\ ppc = "split"
    /\ MatcherIdle
    /\ AppIdle
    /\ ExtractorIdle

\* the ladder with 2 segments enough to stop
ApplyStrategy_TwoSuffice(n) ==
    /\ lines' = StrategyLines(referencesText, n)
    /\ strategy' = n
    /\ ppc' = IF Len(lines') >= 2 \/ n = 4 THEN "loop" ELSE "split"
    /\ UNCHANGED <<referencesText, lineNo, parsed, matcherVars, extractorVars, appVars>>

\* lines = referencesText.split(...).filter(...) with the n-th strategy
ApplyStrategy(n) ==
    /\ lines' = StrategyLines(referencesText, n)
    /\ strategy' = n
    /\ ppc' = IF Len(lines') >= 3 \/ n = 4 THEN "loop" ELSE "split"
    /\ UNCHANGED <<referencesText, lineNo, parsed, matcherVars, extractorVars, appVars>>

\* the numbered split, which is always made
SplitNumbered ==
    /\ ppc = "split"
    /\ strategy = 0
    /\ ApplyStrategy(1)

\* if (lines.length < 3): Author, I. ... (Year)
SplitAuthorYearParen ==
    /\ ppc = "split"
    /\ strategy = 1
    /\ Len(lines) < 3
    /\ ApplyStrategy(2)

\* if (lines.length < 3): Author, I. ..., Year.
SplitAuthorYearPeriod ==
    /\ ppc = "split"
    /\ strategy = 2
    /\ Len(lines) < 3
    /\ ApplyStrategy(3)

\* if (lines.length < 3): any author start
SplitAuthorStart ==
    /\ ppc = "split"
    /\ strategy = 3
    /\ Len(lines) < 3
    /\ ApplyStrategy(4)

\* one iteration of for (const line of lines)
ProcessLine ==
    /\ ppc = "loop"
    /\ lineNo <= Len(lines)
    /\ parsed' = AfterLine(parsed, lines[lineNo])
    /\ lineNo' = lineNo + 1
    /\ UNCHANGED <<referencesText, strategy, lines, ppc, matcherVars, extractorVars, appVars>>

\* return references
ReturnReferences ==
    /\ ppc = "loop"
    /\ lineNo > Len(lines)
    /\ ppc' = "done"
    /\ UNCHANGED <<referencesText, strategy, lines, lineNo, parsed, matcherVars, extractorVars, appVars>>

ParseNext ==
    \/ SplitNumbered
    \/ SplitAuthorYearParen
    \/ SplitAuthorYearPeriod
    \/ SplitAuthorStart
    \/ ProcessLine
    \/ ReturnReferences

ParseSpec == ParseInit /\ [][ParseNext]_vars

(***************************************************************************)
(* Properties of parseReferences.                                          *)
(***************************************************************************)
\* the segments the for loop has been through
ProcessedLines == {k \in 1..(lineNo - 1) : k <= Len(lines)}

\* the records emitted so far
Emitted == {parsed[k] : k \in 1..Len(parsed)}

\* C11: every record parseReferences emits has a year that is a non-empty
\* string, and no record is emitted for a segment that holds no 4-digit token
\* a year could be extracted from: the records never outnumber the segments
\* gone through that hold one.
C11_EveryRecordHasYear ==
    /\ \A r \in Emitted : r.year # undefined /\ Len(r.year) > 0
    /\ Len(parsed) <= Cardinality({k \in ProcessedLines : HasYearToken(lines[k])})

\* a record was emitted, and a segment long enough but without any year was
\* gone through
C11_Witness ==
    /\ ppc = "done"
    /\ Len(parsed) >= 1
    /\ \E k \in ProcessedLines :
            ~LengthRejected(trim(lines[k])) /\ ~HasYearToken(lines[k])

\* C12: in every emitted record each of doi, authors, title and year is either
\* absent or a non-empty string; the empty string is never stored.
C12_NoEmptyStringStored ==
    \A k \in 1..Len(parsed) :
        \A value \in {parsed[k].doi, parsed[k].authors, parsed[k].title, parsed[k].year} :
            value = undefined \/ Len(value) > 0

\* C13: the authors of every emitted record, when the field is not absent,
\* are at least 3 characters long and do not start with a digit: a shorter
\* author text, or one that starts with a digit, leaves the field absent.
C13_AuthorsLongEnough ==
    \A r \in Emitted :
        r.authors # undefined => Len(r.authors) >= 3 /\ At(r.authors, 1) \notin DigitSet

\* C14: the index of every emitted record is a positive integer.
C14_IndexPositive ==
    \A r \in Emitted : r.index \in Nat /\ r.index >= 1

\* the step is an iteration of the for loop that pushes a record
EmitsRecord == ppc = "loop" /\ Len(parsed') = Len(parsed) + 1

\* the record the step pushes
NewRecord == parsed'[Len(parsed')]

\* the segment the step is about, trimmed
CurrentSegment == trim(lines[lineNo])

\* the digits between the character open at the start of seg and the character close
DigitsBetween(seg, open, close) ==
    LET e == RunEnd(seg, 2, DigitSet)
    IN  IF At(seg, 1) = open /\ e > 2 /\ At(seg, e) = close THEN SubSeq(seg, 2, e - 1) ELSE <<>>

\* the digits seg starts with when one of the characters of follow comes after them
LeadingDigits(seg, follow) ==
    LET e == RunEnd(seg, 1, DigitSet)
    IN  IF e > 1 /\ At(seg, e) \in follow THEN SubSeq(seg, 1, e - 1) ELSE <<>>

\* the digits of the marker [n], n. or (n) seg begins with, or <<>>
BracketDotParenDigits(seg) ==
    IF DigitsBetween(seg, "[", "]") # <<>> THEN DigitsBetween(seg, "[", "]")
    ELSE IF DigitsBetween(seg, "(", ")") # <<>> THEN DigitsBetween(seg, "(", ")")
    ELSE LET e == Len(LeadingDigits(seg, {"."})) + 2
         IN  IF At(seg, e) \in SpaceSet THEN LeadingDigits(seg, {"."}) ELSE <<>>

\* the digits of the marker [n], n. , (n) or n seg begins with, or <<>>
AnyMarkerDigits(seg) ==
    IF BracketDotParenDigits(seg) # <<>> THEN BracketDotParenDigits(seg)
    ELSE LeadingDigits(seg, SpaceSet)

\* the number the decimal digits denote
DecimalValue(digits) == ParseDigits(digits)

\* C15 as stated: a segment that begins with a marker [n], n. or (n) gets the
\* index n, and every other segment the number of records accepted before it
\* plus 1.  A segment that begins with a bare number breaks it.
C15_IndexFromMarkerOrCount ==
    [][EmitsRecord =>
        NewRecord.index = IF BracketDotParenDigits(CurrentSegment) # <<>>
                          THEN DecimalValue(BracketDotParenDigits(CurrentSegment))
                          ELSE Len(parsed) + 1]_vars

\* C15 amended: a segment that begins with a marker [n], (n), n. followed by
\* white space, or a bare number n followed by white space, gets the index n,
\* and every other segment the number of records accepted before it plus 1.
C15_IndexFromAnyMarkerOrCount ==
    [][EmitsRecord =>
        NewRecord.index = IF AnyMarkerDigits(CurrentSegment) # <<>>
                          THEN DecimalValue(AnyMarkerDigits(CurrentSegment))
                          ELSE Len(parsed) + 1]_vars

\* a segment with a bare number was given that number, and the segment after
\* it, which has no marker, the number of records before it plus 1
C15_Witness ==
    /\ ppc = "done"
    /\ Len(lines) >= 2
    /\ Len(parsed) >= 2
    /\ LeadingDigits(trim(lines[1]), SpaceSet) = <<"1", "2">>
    /\ parsed[1].index = 12
    /\ AnyMarkerDigits(trim(lines[2])) = <<>>
    /\ parsed[2].index = 2

\* the step is an iteration of the for loop
ProcessesSegment == ppc = "loop" /\ lineNo' = lineNo + 1

\* the step leaves the records as they are and the loop running
DiscardsSilently == parsed' = parsed /\ ppc' = "loop" /\ lines' = lines

\* seg is between 20 and 1000 characters long, both included
LengthAccepted(seg) == 20 <= Len(seg) /\ Len(seg) <= 1000

\* seg without the citation marker it begins with and the white space around it
WithoutMarker(seg) ==
    LET digits == AnyMarkerDigits(seg)
        marked == IF digits = <<>> THEN 0
                  ELSE IF At(seg, 1) \in {"[", "("} THEN Len(digits) + 2
                  ELSE IF At(seg, Len(digits) + 1) = "." THEN Len(digits) + 1
                  ELSE Len(digits)
    IN  trim(SubSeq(seg, marked + 1, Len(seg)))

\* C16 as stated: a record is emitted for a segment exactly when the trimmed
\* segment is 20 to 1000 characters long and holds a 4-digit year token; any
\* other segment is discarded and the loop goes on.  A segment whose only
\* 4-digit token is its citation marker breaks it.
C16_EmittedIffLengthAndYear ==
    [][ProcessesSegment =>
        IF LengthAccepted(CurrentSegment) /\ HasYearToken(CurrentSegment)
        THEN EmitsRecord
        ELSE DiscardsSilently]_vars

\* C16 amended: a record is emitted for a segment exactly when the trimmed
\* segment is 20 to 1000 characters long and what follows its citation marker
\* holds a 4-digit year token; any other segment is discarded, the records and
\* the remaining segments are left as they are and the loop goes on.
C16_EmittedIffLengthAndYearAfterMarker ==
    [][ProcessesSegment =>
        IF LengthAccepted(CurrentSegment) /\ HasYearToken(WithoutMarker(CurrentSegment))
        THEN EmitsRecord /\ ppc' = "loop" /\ lines' = lines
        ELSE DiscardsSilently]_vars

\* a segment of 1001 characters with a year was discarded and the segment
\* after it emitted
C16_Witness ==
    /\ ppc = "done"
    /\ \E k \in 1..(Len(lines) - 1) :
        /\ Len(trim(lines[k])) = 1001
        /\ HasYearToken(WithoutMarker(trim(lines[k])))
        /\ LengthAccepted(trim(lines[k + 1]))
        /\ Len(parsed) = Len(lines) - 1
        /\ parsed[Len(parsed)].text = substring(WithoutMarker(trim(lines[Len(lines)])), 500)

\* the strategies that give at least 3 segments for text
YieldingStrategies(text) == {n \in 1..4 : Len(StrategyLines(text, n)) >= 3}

\* C17: the four splitting strategies are tried in the order 1, 2, 3, 4; a
\* strategy is tried only while none before it has given 3 segments or more;
\* and when the for loop starts, the segments are those of the first strategy
\* that gives at least 3, if there is one.
C17_FirstYieldingStrategy ==
    [][/\ strategy' # strategy =>
            /\ strategy' = strategy + 1
            /\ strategy = 0 \/ Len(lines) < 3
       /\ (ppc = "split" /\ ppc' = "loop" /\ YieldingStrategies(referencesText) # {}) =>
            /\ strategy' = Min(YieldingStrategies(referencesText))
            /\ lines' = StrategyLines(referencesText, strategy')]_vars

\* the loop runs on the segments of the third strategy: the first two gave
\* fewer than 3, and the fourth, which was not tried, would give other segments,
\* 3 or more as well
C17_Witness ==
    /\ ppc = "loop"
    /\ strategy = 3
    /\ Len(lines) >= 3
    /\ Len(StrategyLines(referencesText, 1)) < 3
    /\ Len(StrategyLines(referencesText, 2)) < 3
    /\ Len(StrategyLines(referencesText, 4)) >= 3
    /\ StrategyLines(referencesText, 4) # lines

(***************************************************************************)
(* findReferencesSection: the offset after the references header, or -1.   *)
(* A character outside ASCII is the one-element string of its code point.  *)
(***************************************************************************)
\* String.prototype.split(/[.\n]/): the pieces between the separators
SplitOnChars(text, separators) ==
    LET seps == {k \in 1..Len(text) : text[k] \in separators}
        n == Cardinality(seps)
        nth(i) == IF i = 0 THEN 0
                  ELSE IF i = n + 1 THEN Len(text) + 1
                  ELSE CHOOSE c \in seps : Cardinality({d \in seps : d < c}) = i - 1
    IN  [i \in 1..(n + 1) |-> SubSeq(text, nth(i - 1) + 1, nth(i) - 1)]

\* the character c with the case of the i flag ignored
IgnoreCase(c) == IF c \in UpperSet THEN LowerOf[c] ELSE c

\* word is found at position k of line, whatever the case of the letters
WordAt(line, k, word) ==
    /\ k + Len(word) - 1 <= Len(line)
    /\ \A m \in 1..Len(word) : IgnoreCase(line[k + m - 1]) = word[m]

\* \s*$ matches at k
OnlySpaceFrom(line, k) == \A m \in k..Len(line) : line[m] \in SpaceSet

\* /^words?\s*$/i for the word without its last letter s
SingularOrPlural(line, word) ==
    /\ WordAt(line, 1, word)
    /\ \/ OnlySpaceFrom(line, Len(word) + 1)
       \/ IgnoreCase(At(line, Len(word) + 1)) = "s" /\ OnlySpaceFrom(line, Len(word) + 2)

\* /^first\s+cited\s*$/i, with an optional s after first when plural
ThenCited(line, first, plural) ==
    LET cited == <<"c", "i", "t", "e", "d">>
        After(k) == LET e == RunEnd(line, k, SpaceSet)
                    IN  e > k /\ WordAt(line, e, cited) /\ OnlySpaceFrom(line, e + Len(cited))
    IN  /\ WordAt(line, 1, first)
        /\ \/ After(Len(first) + 1)
           \/ plural /\ IgnoreCase(At(line, Len(first) + 1)) = "s" /\ After(Len(first) + 2)

\* /^word\s*$/i
WholeWord(line, word) == WordAt(line, 1, word) /\ OnlySpaceFrom(line, Len(word) + 1)

\* some pattern of REFERENCE_SECTION_PATTERNS matches line; the two patterns
\* for the Chinese headers have no letter the i flag could change
REFERENCE_SECTION_PATTERNS(line) ==
    \/ SingularOrPlural(line, <<"r", "e", "f", "e", "r", "e", "n", "c", "e">>)
    \/ WholeWord(line, <<"b", "i", "b", "l", "i", "o", "g", "r", "a", "p", "h", "y">>)
    \/ ThenCited(line, <<"w", "o", "r", "k">>, TRUE)
    \/ ThenCited(line, <<"l", "i", "t", "e", "r", "a", "t", "u", "r", "e">>, FALSE)
    \/ SingularOrPlural(line, <<"c", "i", "t", "a", "t", "i", "o", "n">>)
    \/ WholeWord(line, <<"U+53C2", "U+8003", "U+6587", "U+732E">>)
    \/ WholeWord(line, <<"U+5F15", "U+7528", "U+6587", "U+732E">>)

\* the offset after the first occurrence in text of the first segment that is
\* a header, or -1
findReferencesSection(text) ==
    LET pieces == SplitOnChars(text, {".", "\n"})
        headers == {i \in 1..Len(pieces) : REFERENCE_SECTION_PATTERNS(trim(pieces[i]))}
        line == trim(pieces[Min(headers)])
    IN  IF headers = {} THEN -1
        ELSE indexOf(text, line) + Len(line)

(***************************************************************************)
(* The fallbacks of extractReferencesFromPdf on the last part of the text. *)
(***************************************************************************)
\* Math.floor(length * 0.85)
lastPartStart(text) == (85 * Len(text)) \div 100

\* Math.floor(length * 0.9)
lastResortStart(text) == (9 * Len(text)) \div 10

\* ^ of a regular expression with the m flag matches at k
LineStartAt(part, k) == k = 1 \/ At(part, k - 1) \in LineTerminators

\* \s+[A-Z] matches at k
SpaceThenUpperAt(part, k) ==
    LET e == RunEnd(part, k, SpaceSet) IN e > k /\ At(part, e) \in UpperSet

\* numberedRefPattern = /(?:\[1\]|(?:^|\n)1\.|^\(1\))\s+[A-Z]/m matches at k
numberedRefPatternAt(part, k) ==
    \/ LiteralAt(part, k, <<"[", "1", "]">>) /\ SpaceThenUpperAt(part, k + 3)
    \/ LineStartAt(part, k) /\ LiteralAt(part, k, <<"1", ".">>) /\ SpaceThenUpperAt(part, k + 2)
    \/ At(part, k) = "\n" /\ LiteralAt(part, k + 1, <<"1", ".">>) /\ SpaceThenUpperAt(part, k + 3)
    \/ LineStartAt(part, k) /\ LiteralAt(part, k, <<"(", "1", ")">>) /\ SpaceThenUpperAt(part, k + 3)

\* match.index of lastPart.match(numberedRefPattern), or -1 when match is null
NumberedOpenerIndex(part) ==
    LET found == {k \in 1..Len(part) : numberedRefPatternAt(part, k)}
    IN  IF found = {} THEN -1 ELSE Min(found) - 1

\* authorYearPattern = /[A-Z][a-z]+,\s+[A-Z]\.[A-Z]\.(?:[A-Z]\.)?.*?\d{4}\./g
\* matches at k: the position after the match, or 0.  The lazy .*? stops at
\* the first 4 digits and period that no line break comes before.
authorYearPatternEndAt(part, k) ==
    LET l == RunEnd(part, k + 1, LowerSet)
        s == RunEnd(part, l + 1, SpaceSet)
        p == s + 4
        q == IF At(part, p) \in UpperSet /\ At(part, p + 1) = "." THEN p + 2 ELSE p
        YearAt(j) == /\ \A m \in j..(j + 3) : At(part, m) \in DigitSet
                     /\ At(part, j + 4) = "."
        years == {j \in q..Len(part) : YearAt(j)}
    IN  IF /\ At(part, k) \in UpperSet
           /\ l > k + 1
           /\ At(part, l) = ","
           /\ s > l + 1
           /\ At(part, s) \in UpperSet /\ At(part, s + 1) = "."
           /\ At(part, s + 2) \in UpperSet /\ At(part, s + 3) = "."
           /\ years # {}
           /\ \A m \in q..(Min(years) - 1) : part[m] \notin LineTerminators
        THEN Min(years) + 5 ELSE 0

\* [...lastPart.matchAll(authorYearPattern)] from position k on: each match is
\* <<position of its start, position after its end>>
RECURSIVE MatchAllFrom(_, _)
MatchAllFrom(part, k) ==
    LET starts == {j \in k..Len(part) : authorYearPatternEndAt(part, j) # 0}
    IN  IF starts = {} THEN <<>>
        ELSE <<<<Min(starts), authorYearPatternEndAt(part, Min(starts))>>>>
             \o MatchAllFrom(part, authorYearPatternEndAt(part, Min(starts)))

\* String.prototype.lastIndexOf('\n') of part.substring(0, k - 1), or -1
LastLineBreakBefore(part, k) ==
    LET breaks == {j \in 1..(k - 1) : part[j] = "\n"}
    IN  IF breaks = {} THEN -1 ELSE (CHOOSE j \in breaks : \A m \in breaks : j >= m) - 1

\* the offset in lastPart where the dense cluster of author-year references
\* starts, or -1: 5 matches or more, and two consecutive ones less than 300 apart
ClusterIndex(part) ==
    LET found == MatchAllFrom(part, 1)
        close == {i \in 1..(Len(found) - 1) : found[i + 1][1] - found[i][2] < 300}
        start == found[Min(close)][1]
        lineStart == LastLineBreakBefore(part, start)
    IN  IF Len(found) >= 5 /\ close # {}
        THEN (IF lineStart >= 0 THEN lineStart + 1 ELSE start - 1)
        ELSE -1

\* This paper studies graphs.
BodySentence ==
    <<"T", "h", "i", "s", " ", "p", "a", "p", "e", "r", " ", "s", "t", "u", "d", "i", "e", "s",
      " ", "g", "r", "a", "p", "h", "s", ".">>

\* See References below.
MentionSentence ==
    <<"S", "e", "e", " ", "R", "e", "f", "e", "r", "e", "n", "c", "e", "s", " ", "b", "e", "l",
      "o", "w", ".">>

\* References
HeaderReferences ==
    <<"R", "e", "f", "e", "r", "e", "n", "c", "e", "s">>

\* WORKS CITED
HeaderWorksCited ==
    <<"W", "O", "R", "K", "S", " ", "C", "I", "T", "E", "D">>

\* Lee, K.H. Graph nets 2019.
ClusterReference ==
    <<"L", "e", "e", ",", " ", "K", ".", "H", ".", " ", "G", "r", "a", "p", "h", " ", "n", "e",
      "t", "s", " ", "2", "0", "1", "9", ".">>
\* the Chinese header of REFERENCE_SECTION_PATTERNS, U+53C2 U+8003 U+6587 U+732E
HeaderChinese == <<"U+53C2", "U+8003", "U+6587", "U+732E">>

\* n copies of sentence joined by single spaces
Sentences(sentence, n) == JoinSegments([k \in 1..n |-> sentence])

\* the body of a paper whose references are more than the last 15% of the text
BodyShort == Sentences(BodySentence, 2)

\* the body of a paper whose references are within the last 15% of the text
BodyLong == Sentences(BodySentence, 60)

\* a body that has the word References in a sentence
BodyMention == MentionSentence \o <<" ">> \o BodySentence

\* the reference lists at the end of a paper
ReferenceListTexts == {JoinSegments(s) : s \in SeqsUpTo({SegSmith, SegLee}, MaxSegments)}

\* the text of a paper: a body, a header set off by periods or none, the references
Paper(body, header, list) ==
    IF header = <<>> THEN body \o <<" ">> \o list
    ELSE body \o <<" ">> \o header \o <<".", " ">> \o list

\* the texts of the pages of a PDF, joined
FullTexts ==
    {<<>>}
    \cup {Paper(body, header, list) :
            body \in {BodyShort, BodyLong, BodyMention},
            header \in {<<>>, HeaderReferences, HeaderWorksCited, HeaderChinese},
            list \in ReferenceListTexts}
    \cup {Paper(BodyLong, <<>>, Sentences(ClusterReference, n)) : n \in {4, 5, 6}}

(***************************************************************************)
(* The state machine of extractReferencesFromPdf(pdfData).                 *)
(*   fullText   the text of the pages of pdfData, joined                   *)
(*   refStart   the offset where the references start, -1 while not found  *)
(*   locator    what found refStart: "header", "numbered", "cluster", or   *)
(*              "none"                                                     *)
(*   extracted  the array the function returns                             *)
(*   epc        the statement to run next: "start", "find", "fallback1",   *)
(*              "fallback2", "lastResort", "parse", "caught"; "returned"   *)
(*              once the function has returned, "raised" had it thrown     *)
(***************************************************************************)
ExtractInit ==
    /\ fullText \in FullTexts
    /\ refStart = -1
    /\ locator = "none"
    /\ extracted = <<>>
    /\ epc = "start"
    /\ MatcherIdle
    /\ AppIdle
    /\ ParserIdle

\* pageTexts = await extractPdfText(pdfData); fullText = pageTexts.join(' ')
ExtractPdfText ==
    /\ epc = "start"
    /\ epc' = "find"
    /\ UNCHANGED <<fullText, refStart, locator, extracted, matcherVars, parserVars, appVars>>

\* extractPdfText rejects (pdfjs cannot read pdfData): control goes to catch
ExtractPdfTextThrows ==
    /\ epc = "start"
    /\ epc' = "caught"
    /\ UNCHANGED <<fullText, refStart, locator, extracted, matcherVars, parserVars, appVars>>

\* a search that goes on to the next one even when it has found the references
Located_FallsThrough(offset, by, otherwise) ==
    /\ refStart' = IF offset # -1 THEN offset ELSE refStart
    /\ locator' = IF offset # -1 THEN by ELSE locator
    /\ epc' = otherwise
    /\ UNCHANGED <<fullText, extracted, matcherVars, parserVars, appVars>>

\* what a search of the references does with the offset it gives: the searches
\* after it are under if (refStart === -1)
Located(offset, by, otherwise) ==
    /\ refStart' = IF offset # -1 THEN offset ELSE refStart
    /\ locator' = IF offset # -1 THEN by ELSE locator
    /\ epc' = IF refStart' # -1 THEN "parse" ELSE otherwise
    /\ UNCHANGED <<fullText, extracted, matcherVars, parserVars, appVars>>

\* let refStart = findReferencesSection(fullText)
FindSection ==
    /\ epc = "find"
    /\ Located(findReferencesSection(fullText), "header", "fallback1")

\* Fallback 1: a numbered reference opener in the last 15%
FallbackNumbered ==
    /\ epc = "fallback1"
    /\ LET index == NumberedOpenerIndex(substringFrom(fullText, lastPartStart(fullText)))
       IN  Located(IF index # -1 THEN lastPartStart(fullText) + index ELSE -1,
                   "numbered", "fallback2")

\* Fallback 2: a dense cluster of author-year references in the last 15%
FallbackCluster ==
    /\ epc = "fallback2"
    /\ LET index == ClusterIndex(substringFrom(fullText, lastPartStart(fullText)))
       IN  Located(IF index # -1 THEN lastPartStart(fullText) + index ELSE -1,
                   "cluster", "lastResort")

\* Last resort: parse the last 10%
ParseLastResort ==
    /\ epc = "lastResort"
    /\ extracted' = parseReferences(substringFrom(fullText, lastResortStart(fullText)))
    /\ epc' = "returned"
    /\ UNCHANGED <<fullText, refStart, locator, matcherVars, parserVars, appVars>>

\* return parseReferences(fullText.substring(refStart))
ParseFromStart ==
    /\ epc = "parse"
    /\ extracted' = parseReferences(substringFrom(fullText, refStart))
    /\ epc' = "returned"
    /\ UNCHANGED <<fullText, refStart, locator, matcherVars, parserVars, appVars>>

\* a catch block that throws the error again
CatchError_Rethrows ==
    /\ epc = "caught"
    /\ epc' = "raised"
    /\ UNCHANGED <<fullText, refStart, locator, extracted, matcherVars, parserVars, appVars>>

\* catch (error) { console.error(...); return []; }
CatchError ==
    /\ epc = "caught"
    /\ extracted' = <<>>
    /\ epc' = "returned"
    /\ UNCHANGED <<fullText, refStart, locator, matcherVars, parserVars, appVars>>

ExtractNext ==
    \/ ExtractPdfText
    \/ ExtractPdfTextThrows
    \/ FindSection
    \/ FallbackNumbered
    \/ FallbackCluster
    \/ ParseLastResort
    \/ ParseFromStart
    \/ CatchError

ExtractSpec == ExtractInit /\ [][ExtractNext]_vars

(***************************************************************************)
(* Properties of findReferencesSection and extractReferencesFromPdf.       *)
(***************************************************************************)
\* the positions where the segments of text start: the text is cut at every
\* period and line break
SegmentStarts(text) == {1} \cup {k + 1 : k \in {j \in 1..Len(text) : text[j] \in {".", "\n"}}}

\* the segment of text that starts at position a
SegmentAt(text, a) == SubSeq(text, a, RunEndNot(text, a, {".", "\n"}) - 1)

\* the starts of the segments that, once trimmed, are a references header
HeaderStarts(text) ==
    {a \in SegmentStarts(text) : REFERENCE_SECTION_PATTERNS(trim(SegmentAt(text, a)))}

\* the offset right after the header that the first header segment of text holds
OffsetAfterFirstHeader(text) ==
    LET a == Min(HeaderStarts(text))
        b == RunEndNot(text, a, {".", "\n"}) - 1
    IN  CHOOSE k \in a..b : text[k] \notin SpaceSet /\ \A m \in (k + 1)..b : text[m] \in SpaceSet

\* C18: when some segment of the text is a references header, the offset that
\* findReferencesSection returns is the one right after the header in the
\* first such segment.
C18_OffsetAfterMatchedHeader ==
    (epc = "parse" /\ HeaderStarts(fullText) # {}) =>
        refStart = OffsetAfterFirstHeader(fullText)

\* the last 15% of the text
LastPart(text) == substringFrom(text, lastPartStart(text))

\* the offset each of the three locators gives for text, -1 when it fails
HeaderOffset(text) == findReferencesSection(text)

NumberedOffset(text) ==
    IF NumberedOpenerIndex(LastPart(text)) = -1 THEN -1
    ELSE lastPartStart(text) + NumberedOpenerIndex(LastPart(text))

ClusterOffset(text) ==
    IF ClusterIndex(LastPart(text)) = -1 THEN -1
    ELSE lastPartStart(text) + ClusterIndex(LastPart(text))

\* the first locator that succeeds for text and its offset, in the order
\* header, numbered opener, cluster
FirstLocator(text) ==
    IF HeaderOffset(text) # -1 THEN <<"header", HeaderOffset(text)>>
    ELSE IF NumberedOffset(text) # -1 THEN <<"numbered", NumberedOffset(text)>>
    ELSE IF ClusterOffset(text) # -1 THEN <<"cluster", ClusterOffset(text)>>
    ELSE <<"none", -1>>

\* C19: the references are parsed from the offset of the first locator that
\* succeeds, in the order header, numbered opener in the last 15%, cluster in
\* the last 15%; once a locator has succeeded, no later one changes the
\* offset; and the last 10% of the text, from floor(0.9 * length), is parsed
\* only when the three of them fail.
C19_FirstLocatorWins ==
    [][/\ locator # "none" => locator' = locator /\ refStart' = refStart
       /\ (epc = "parse" /\ epc' = "returned") =>
            /\ <<locator, refStart>> = FirstLocator(fullText)
            /\ locator # "none"
            /\ extracted' = parseReferences(substringFrom(fullText, refStart))
       /\ (epc = "lastResort" /\ epc' = "returned") =>
            /\ FirstLocator(fullText) = <<"none", -1>>
            /\ extracted' = parseReferences(substringFrom(fullText, (9 * Len(fullText)) \div 10))
       /\ (epc' = "returned" /\ epc # "returned") => epc \in {"parse", "lastResort", "caught"}]_vars

\* the header and the numbered opener both succeed for the text, and the
\* references were parsed from the offset the header gave
C19_Witness ==
    /\ epc = "returned"
    /\ locator = "header"
    /\ NumberedOffset(fullText) # -1
    /\ NumberedOffset(fullText) # refStart
    /\ extracted # <<>>

\* C20: extractReferencesFromPdf never raises an error to its caller: when the
\* text extraction fails it returns an empty sequence, and for an empty text
\* too.
C20_NeverRaises ==
    [][/\ epc' # "raised"
       /\ epc = "caught" => epc' = "returned" /\ extracted' = <<>>
       /\ (epc' = "returned" /\ fullText = <<>>) => extracted' = <<>>]_vars

\* the text extraction failed for a PDF whose text holds a references header
\* and references, and the function returned an empty sequence
C20_Witness ==
    /\ epc = "returned"
    /\ extracted = <<>>
    /\ HeaderOffset(fullText) # -1
    /\ parseReferences(substringFrom(fullText, HeaderOffset(fullText))) # <<>>

(***************************************************************************)
(* The references list of the DetailPanel: a reference is looked up in the *)
(* match map by its index and marked 'In Library' by its best match.       *)
(***************************************************************************)
\* citationMatches.get(ref.index)?.[0] is a match
HasBestMatch(map, ref) == ref.index \in DOMAIN map /\ Len(map[ref.index]) > 0

\* isInLibrary with the cutoff of the matcher
isInLibrary_MatcherCutoff(map, ref) ==
    HasBestMatch(map, ref) /\ RLeq(<<1, 2>>, map[ref.index][1].similarity)

\* const isInLibrary = match && match.similarity >= 0.7
isInLibrary(map, ref) ==
    HasBestMatch(map, ref) /\ RLeq(<<7, 10>>, map[ref.index][1].similarity)

\* the matches stored under the index of ref
StoredFor(map, ref) == IF ref.index \in DOMAIN map THEN map[ref.index] ELSE <<>>

\* the ranked matches of the reference at position k of the document
OwnMatches(k) == findMatchingItems(references[k], libraryItems, tz)

\* C21: once the matcher has returned, a reference is marked 'In Library'
\* exactly when the first match stored for its index has similarity >= 0.7;
\* the matcher keeps the matches of similarity >= 0.5, so a reference whose
\* own best match has a similarity in [0.5, 0.7) has its matches in the
\* matcher's output without being marked.
C21_InLibraryAtSeventyPercent ==
    pc = "done" =>
        \A k \in 1..Len(references) :
            LET ref == references[k]
                stored == StoredFor(matchMap, ref)
                own == OwnMatches(k)
            IN  /\ isInLibrary(matchMap, ref) <=>
                       (stored # <<>> /\ RLeq(<<7, 10>>, stored[1].similarity))
                /\ \A m \in 1..Len(stored) : RLeq(<<1, 2>>, stored[m].similarity)
                /\ (stored # <<>> /\ stored = own /\ RLess(own[1].similarity, <<7, 10>>)) =>
                       ~isInLibrary(matchMap, ref)

\* the best match of a reference has a similarity of at least 0.5 and less
\* than 0.7: it is in the match map and the reference is not marked
C21_Witness ==
    /\ pc = "done"
    /\ \E k \in 1..Len(references) :
            /\ StoredFor(matchMap, references[k]) # <<>>
            /\ StoredFor(matchMap, references[k]) = OwnMatches(k)
            /\ RLess(OwnMatches(k)[1].similarity, <<7, 10>>)
            /\ ~isInLibrary(matchMap, references[k])

\* C27: once the matcher has returned, for every reference that has at least
\* one qualifying match, the entry of the match map under its index is the
\* ranked match sequence of that very reference.
C27_EntryIsOwnMatches ==
    pc = "done" =>
        \A k \in 1..Len(references) :
            OwnMatches(k) # <<>> =>
                StoredFor(matchMap, references[k]) = OwnMatches(k)

(***************************************************************************)
(* The application: the database (db.items, db.attachments,                *)
(* db.collections), the Home page with the Sidebar, and the DetailPanel    *)
(* with the AnalysisPanel.  Every await of a handler ends a step, so the   *)
(* handlers interleave where the code lets them.                           *)
(*   dbItems        db.items, a function from id to ReferenceItem          *)
(*   dbAttachments  the ids of the items that have a PDF attachment        *)
(*   created        the number of ids uuidv4 has given                     *)
(*   collections    db.collections, a function from id to parentId         *)
(*   activeFilter, selectedIds   the state of Home                         *)
(*   deletion       the running handleDeleteCollection, or NoDeletion      *)
(***************************************************************************)
MaxUuids == 2

\* the state of the matcher, the parser and the extractor
engineVars == <<matcherVars, parserVars, extractorVars>>

\* the values of uuidv4(), in the order of the calls
Uuids == <<"u1", "u2", "u3", "u4", "u5">>

\* Table.add(object) and Table.put
Add(table, key, object) ==
    [k \in DOMAIN table \cup {key} |-> IF k = key THEN object ELSE table[k]]

\* Table.update(key, changes): the fields of changes replace those of the
\* stored object; nothing is written when the key is absent
Update(table, key, changes) ==
    [k \in DOMAIN table |->
        IF k = key
        THEN [f \in DOMAIN table[k] \cup DOMAIN changes |->
                 IF f \in DOMAIN changes THEN changes[f] ELSE table[k][f]]
        ELSE table[k]]

\* Table.bulkDelete(keys)
Delete(table, keys) == [k \in DOMAIN table \ keys |-> table[k]]

\* an item without aiAnalysis (the field is absent)
NoAnalysis == [absent |-> TRUE]

\* a ReferenceItem; the absent deleted is false, the absent collectionIds and
\* the absent references are empty (the code reads them so:
\* item.references && item.references.length > 0)
StoredItem(id, doi, date, title, creators) ==
    [id |-> id, doi |-> doi, date |-> date, title |-> title, creators |-> creators,
     tags |-> {}, collectionIds |-> {}, deleted |-> FALSE,
     aiAnalysis |-> NoAnalysis, references |-> <<>>]

\* const newItem = {id: uuidv4(), title: file.name.replace('.pdf', ''), ...}
NewItem(id) == StoredItem(id, undefined, undefined, <<"p", "a", "p", "e", "r">>, <<>>)

\* the items a filter lists (without a search query)
Listed(filter) ==
    {id \in DOMAIN dbItems :
        CASE filter = "trash" -> dbItems[id].deleted
          [] filter = "unfiled" -> ~dbItems[id].deleted /\ dbItems[id].collectionIds = {}
          [] filter = "all" -> ~dbItems[id].deleted
          [] OTHER -> ~dbItems[id].deleted /\ filter \in dbItems[id].collectionIds}

SpecialFilters == {"all", "unfiled", "trash"}

(***************************************************************************)
(* Home and Sidebar.                                                       *)
(***************************************************************************)
\* handleCreateCollection(parentId) with a name entered at the prompt
CreateCollection(parentId) ==
    /\ created < MaxUuids
    /\ created' = created + 1
    /\ collections' = Add(collections, Uuids[created + 1], parentId)
    /\ UNCHANGED <<dbItems, dbAttachments, activeFilter, selectedIds, deletion,
                   panelVars, engineVars>>

\* onFilterChange(filter): a click on 'all', 'unfiled', 'trash' or a collection
SelectFilter(filter) ==
    /\ activeFilter' = filter
    /\ UNCHANGED <<storeVars, collections, selectedIds, deletion, panelVars, engineVars>>

\* setSelectedIds(ids) and the renders after it, with the running analyses
\* and their tasks as they are after the handler: the DetailPanel is mounted
\* while one item is selected and loses its state when it is unmounted (the
\* handlers it has started go on); the AnalysisPanel stays mounted, its status
\* effect runs when its itemId changes
PanelsOnSelect(ids, running, tasks) ==
    LET kept == Cardinality(selectedIds) = 1 /\ Cardinality(ids) = 1
        itemIdChanges == ids # selectedIds /\ (Cardinality(selectedIds) = 1 \/ Cardinality(ids) = 1)
    IN  /\ selectedIds' = ids
        /\ formData' = IF kept THEN formData ELSE <<>>
        /\ citationMatches' = IF kept THEN citationMatches ELSE <<>>
        /\ extraction' = IF extraction # <<>> /\ ~kept
                         THEN [extraction EXCEPT !.mounted = FALSE] ELSE extraction
        /\ isAnalyzing' = IF itemIdChanges
                          THEN Cardinality(ids) = 1 /\ ids \subseteq running
                          ELSE isAnalyzing
        /\ activeAnalyses' = running
        /\ analyses' = IF kept THEN tasks
                       ELSE [t \in DOMAIN tasks |-> [tasks[t] EXCEPT !.mounted = FALSE]]

SetSelectedIds(ids) == PanelsOnSelect(ids, activeAnalyses, analyses)

\* handleRowClick without a modifier key
ClickRow(id) ==
    /\ SetSelectedIds({id})
    /\ UNCHANGED <<storeVars, collections, activeFilter, deletion, engineVars>>

\* handleRowClick with the meta or control key
ToggleRow(id) ==
    /\ SetSelectedIds(IF id \in selectedIds THEN selectedIds \ {id} ELSE selectedIds \cup {id})
    /\ UNCHANGED <<storeVars, collections, activeFilter, deletion, engineVars>>

\* handleDrop of the Sidebar: a listed item is dropped on a collection
DropOnCollection(itemId, targetCollectionId) ==
    /\ targetCollectionId \notin dbItems[itemId].collectionIds
    /\ dbItems' = Update(dbItems, itemId,
            [collectionIds |-> dbItems[itemId].collectionIds \cup {targetCollectionId}])
    /\ UNCHANGED <<dbAttachments, created, libraryVars, panelVars, engineVars>>

\* db.items.update(id, {deleted: flag}) for every selected id
SetDeleted(ids, flag) ==
    [k \in DOMAIN dbItems |->
        IF k \in ids THEN [dbItems[k] EXCEPT !.deleted = flag] ELSE dbItems[k]]

\* 'Move to Trash' of the multi-select panel
TrashSelected ==
    /\ Cardinality(selectedIds) > 1
    /\ activeFilter # "trash"
    /\ dbItems' = SetDeleted(selectedIds, TRUE)
    /\ SetSelectedIds({})
    /\ UNCHANGED <<dbAttachments, created, collections, activeFilter, deletion,
                   engineVars>>

\* 'Restore Selected' of the multi-select panel
RestoreSelected ==
    /\ Cardinality(selectedIds) > 1
    /\ activeFilter = "trash"
    /\ dbItems' = SetDeleted(selectedIds, FALSE)
    /\ SetSelectedIds({})
    /\ UNCHANGED <<dbAttachments, created, collections, activeFilter, deletion,
                   engineVars>>

\* 'Delete Permanently' of the multi-select panel
DeleteSelectedPermanently ==
    /\ Cardinality(selectedIds) > 1
    /\ activeFilter = "trash"
    /\ dbAttachments' = dbAttachments \ selectedIds
    /\ dbItems' = Delete(dbItems, selectedIds)
    /\ SetSelectedIds({})
    /\ UNCHANGED <<created, collections, activeFilter, deletion, engineVars>>

\* the item the DetailPanel shows
PanelItem == CHOOSE id \in selectedIds : TRUE

PanelShown == Cardinality(selectedIds) = 1 /\ PanelItem \in DOMAIN dbItems

\* 'Move to Trash' of the DetailPanel
TrashItem ==
    /\ PanelShown
    /\ ~dbItems[PanelItem].deleted
    /\ dbItems' = SetDeleted({PanelItem}, TRUE)
    /\ SetSelectedIds({})
    /\ UNCHANGED <<dbAttachments, created, collections, activeFilter, deletion,
                   engineVars>>

\* 'Restore Item' of the DetailPanel
RestoreItem ==
    /\ PanelShown
    /\ dbItems[PanelItem].deleted
    /\ dbItems' = SetDeleted({PanelItem}, FALSE)
    /\ UNCHANGED <<dbAttachments, created, libraryVars, panelVars, engineVars>>

\* 'Delete Permanently' of the DetailPanel
DeleteItemPermanently ==
    /\ PanelShown
    /\ dbItems[PanelItem].deleted
    /\ dbAttachments' = dbAttachments \ {PanelItem}
    /\ dbItems' = Delete(dbItems, {PanelItem})
    /\ SetSelectedIds({})
    /\ UNCHANGED <<created, collections, activeFilter, deletion, engineVars>>

\* handleImportFiles for one PDF, without a Gemini key in localStorage
ImportFile ==
    /\ created < MaxUuids
    /\ created' = created + 1
    /\ dbItems' = Add(dbItems, Uuids[created + 1],
            [NewItem(Uuids[created + 1]) EXCEPT
                !.collectionIds = IF activeFilter \in SpecialFilters THEN {} ELSE {activeFilter}])
    /\ dbAttachments' = dbAttachments \cup {Uuids[created + 1]}
    /\ SetSelectedIds({Uuids[created + 1]})
    /\ UNCHANGED <<collections, activeFilter, deletion, engineVars>>

(***************************************************************************)
(* handleDeleteCollection: deleteRecursive is a stack of frames, one for   *)
(* each call that has not returned.                                        *)
(***************************************************************************)
Frame(targetId) == [targetId |-> targetId, at |-> "children", children |-> {}, items |-> {}]

TopFrame == deletion.stack[Len(deletion.stack)]

SetTopFrame(frame) ==
    [deletion EXCEPT !.stack = [@ EXCEPT ![Len(deletion.stack)] = frame]]

\* a click on the delete button of a collection, confirmed: deleteRecursive(id)
\* is called, with the activeFilter of the render the handler belongs to
ClickDeleteCollection(id) ==
    /\ deletion = NoDeletion
    /\ deletion' = [root |-> id, filterSeen |-> activeFilter, stack |-> <<Frame(id)>>]
    /\ UNCHANGED <<storeVars, collections, activeFilter, selectedIds, panelVars, engineVars>>

\* const children = await db.collections.where('parentId').equals(targetId).toArray()
QueryChildren ==
    /\ deletion # NoDeletion
    /\ TopFrame.at = "children"
    /\ deletion' = SetTopFrame([TopFrame EXCEPT
            !.at = "loop",
            !.children = {c \in DOMAIN collections : collections[c] = TopFrame.targetId}])
    /\ UNCHANGED <<storeVars, collections, activeFilter, selectedIds, panelVars, engineVars>>

\* await deleteRecursive(child.id) for the next child
DeleteChild ==
    /\ deletion # NoDeletion
    /\ TopFrame.at = "loop"
    /\ TopFrame.children # {}
    /\ LET child == CHOOSE c \in TopFrame.children : TRUE
       IN  deletion' = [deletion EXCEPT !.stack =
                [@ EXCEPT ![Len(deletion.stack)] =
                    [TopFrame EXCEPT !.children = TopFrame.children \ {child}]]
                \o <<Frame(child)>>]
    /\ UNCHANGED <<storeVars, collections, activeFilter, selectedIds, panelVars, engineVars>>

\* await db.collections.delete(targetId), once the loop over the children is over
DeleteTarget ==
    /\ deletion # NoDeletion
    /\ TopFrame.at = "loop"
    /\ TopFrame.children = {}
    /\ collections' = Delete(collections, {TopFrame.targetId})
    /\ deletion' = SetTopFrame([TopFrame EXCEPT !.at = "items"])
    /\ UNCHANGED <<storeVars, activeFilter, selectedIds, panelVars, engineVars>>

\* const items = await db.items.where('collectionIds').equals(targetId).toArray()
QueryItems ==
    /\ deletion # NoDeletion
    /\ TopFrame.at = "items"
    /\ deletion' = SetTopFrame([TopFrame EXCEPT
            !.at = "update",
            !.items = {dbItems[id] : id \in {k \in DOMAIN dbItems :
                                        TopFrame.targetId \in dbItems[k].collectionIds}}])
    /\ UNCHANGED <<storeVars, collections, activeFilter, selectedIds, panelVars, engineVars>>

\* await db.items.update(item.id, {collectionIds: newIds}) for the next item
\* of the query, newIds being computed from the item as the query gave it
UpdateItemCollections ==
    /\ deletion # NoDeletion
    /\ TopFrame.at = "update"
    /\ TopFrame.items # {}
    /\ LET item == CHOOSE i \in TopFrame.items : TRUE
       IN  /\ dbItems' = Update(dbItems, item.id,
                    [collectionIds |-> item.collectionIds \ {TopFrame.targetId}])
           /\ deletion' = SetTopFrame([TopFrame EXCEPT !.items = TopFrame.items \ {item}])
    /\ UNCHANGED <<dbAttachments, created, collections, activeFilter, selectedIds,
                   panelVars, engineVars>>

\* deleteRecursive returns; after the outermost call,
\* if (activeFilter === id) onFilterChange('all')
ReturnDelete ==
    /\ deletion # NoDeletion
    /\ TopFrame.at = "update"
    /\ TopFrame.items = {}
    /\ deletion' = IF Len(deletion.stack) > 1
                   THEN [deletion EXCEPT !.stack = SubSeq(@, 1, Len(@) - 1)]
                   ELSE NoDeletion
    /\ activeFilter' = IF Len(deletion.stack) = 1 /\ deletion.filterSeen = deletion.root
                       THEN "all" ELSE activeFilter
    /\ UNCHANGED <<storeVars, collections, selectedIds, panelVars, engineVars>>

\* a library with two items, 'a' with a PDF attachment, and no collection
LibraryInit ==
    /\ dbItems = [id \in {"a", "b"} |->
                    StoredItem(id, undefined, Year2020, TitleDeep, <<CreatorSmithJohn>>)]
    /\ dbAttachments = {"a"}
    /\ created = 0
    /\ collections = <<>>
    /\ activeFilter = "all"
    /\ selectedIds = {}
    /\ deletion = NoDeletion
    /\ formData = <<>>
    /\ citationMatches = <<>>
    /\ extraction = <<>>
    /\ activeAnalyses = {}
    /\ analyses = <<>>
    /\ isAnalyzing = FALSE
    /\ MatcherIdle
    /\ ParserIdle
    /\ ExtractorIdle

\* the collections of the Sidebar: creation, filter, drop, import and deletion
CollectionsNext ==
    \/ \E parentId \in DOMAIN collections \cup {"none"} : CreateCollection(parentId)
    \/ \E filter \in SpecialFilters \cup DOMAIN collections : SelectFilter(filter)
    \/ \E id \in Listed(activeFilter), c \in DOMAIN collections : DropOnCollection(id, c)
    \/ ImportFile
    \/ \E id \in DOMAIN collections : ClickDeleteCollection(id)
    \/ QueryChildren
    \/ DeleteChild
    \/ DeleteTarget
    \/ QueryItems
    \/ UpdateItemCollections
    \/ ReturnDelete

CollectionsSpec == LibraryInit /\ [][CollectionsNext]_vars

\* the selection and the trash: filter, row clicks, and the buttons of the
\* multi-select panel and of the DetailPanel
TrashNext ==
    \/ \E filter \in SpecialFilters : SelectFilter(filter)
    \/ \E id \in Listed(activeFilter) : ClickRow(id) \/ ToggleRow(id)
    \/ TrashSelected
    \/ RestoreSelected
    \/ DeleteSelectedPermanently
    \/ TrashItem
    \/ RestoreItem
    \/ DeleteItemPermanently
    \/ ImportFile

TrashSpec == LibraryInit /\ [][TrashNext]_vars

(***************************************************************************)
(* Properties of the library.                                              *)
(***************************************************************************)
\* the step ends handleDeleteCollection
DeletionCompletes == deletion # NoDeletion /\ deletion' = NoDeletion

\* the ids of the collections that were created and are no longer stored
DeletedCollections == {Uuids[k] : k \in 1..created} \ (DOMAIN collections \cup DOMAIN dbItems)

\* C24: when a confirmed deletion of a collection completes, the collection
\* and its descendants are gone (no stored collection has a deleted parent),
\* no step of the deletion has deleted an item, and no item's collectionIds
\* holds the id of a deleted collection.
C24_DeletionLeavesNoTrace ==
    [][/\ deletion # NoDeletion => DOMAIN dbItems \subseteq DOMAIN dbItems'
       /\ DeletionCompletes =>
            /\ deletion.root \notin DOMAIN collections'
            /\ \A c \in DOMAIN collections' : collections'[c] \notin DeletedCollections'
            /\ \A id \in DOMAIN dbItems' :
                    dbItems'[id].collectionIds \cap DeletedCollections' = {}]_vars

\* C28: when no deletion is running, the active filter is 'all', 'unfiled',
\* 'trash' or the id of a stored collection.
C28_FilterOnStoredCollection ==
    deletion = NoDeletion => activeFilter \in SpecialFilters \cup DOMAIN collections

\* C26: every step that removes an item, or the attachments of an item, from
\* the database removes an item whose deleted flag is set.
C26_OnlyTrashedItemsDeleted ==
    [][/\ \A id \in DOMAIN dbItems \ DOMAIN dbItems' : dbItems[id].deleted
       /\ \A id \in (dbAttachments \ dbAttachments') \cap DOMAIN dbItems :
                dbItems[id].deleted]_vars

(***************************************************************************)
(* The DetailPanel: the form, the references tab and its handler           *)
(* 'Extract References'.                                                   *)
(*   formData          the form state, <<>> for {}                         *)
(*   citationMatches   the Map of the references tab, <<>> when empty      *)
(*   extraction        the running 'Extract References' handler, or <<>>   *)
(* An aiAnalysis is the text the model returned; of the text the program   *)
(* reads the tags of the front matter and the first ```json block, so an   *)
(* analysis is the record of these two.                                    *)
(***************************************************************************)
\* the text has no ```json block
NoBlock == [fence |-> FALSE, parses |-> FALSE, isArray |-> FALSE, elements |-> <<>>]

\* a ```json block that JSON.parse rejects
MalformedBlock == [fence |-> TRUE, parses |-> FALSE, isArray |-> FALSE, elements |-> <<>>]

\* a ```json block that holds an object, not an array
ObjectBlock == [fence |-> TRUE, parses |-> TRUE, isArray |-> FALSE, elements |-> <<>>]

\* a ```json block that holds the array of elements
ArrayBlock(elements) == [fence |-> TRUE, parses |-> TRUE, isArray |-> TRUE, elements |-> elements]

\* an analysis text: hasTags when the front matter has an array tags
Analysis(hasTags, tags, block) == [hasTags |-> hasTags, tags |-> tags, block |-> block]

\* [1] of the PDF of item a: item b
RefCitesB == ParsedReference(1, TitleGraphRef, DoiLower, undefined, TitleGraphRef, Year2019)

\* [1] of the PDF of item b: a work that is not in the library
RefElsewhere == ParsedReference(1, TitleDeepRef, undefined, AuthorsLi, undefined, Year2020)

\* an element of a ```json block with index and text
RefFromAI == ParsedReference(2, TitleGraphRef, DoiLower, undefined, undefined, undefined)

\* the element {"index": 1, "title": "Graph Nets"}: it has no text
RefWithoutText == ParsedReference(1, undefined, undefined, undefined, TitleGraphRef, undefined)

\* the analyses the model may return
AnalysisPool ==
    {Analysis(TRUE, {"ml"}, NoBlock),
     Analysis(TRUE, {}, MalformedBlock),
     Analysis(FALSE, {}, ObjectBlock),
     Analysis(FALSE, {}, ArrayBlock(<<>>)),
     Analysis(TRUE, {"nets"}, ArrayBlock(<<RefFromAI>>)),
     Analysis(FALSE, {}, ArrayBlock(<<RefWithoutText>>))}

\* what extractReferencesFromPdf returns for the PDF attached to an item
PdfReferences(itemId) ==
    CASE itemId = "a" -> <<RefCitesB>>
      [] itemId = "b" -> <<RefElsewhere>>
      [] OTHER -> <<>>

\* interface ParsedReference: index is a number, text a string, and doi,
\* authors, title and year are strings when present
WellShaped(r) == r.index \in Int /\ r.text # undefined

\* the order of db.items.toArray(): by primary key
KeyOrder == <<"a", "b">> \o Uuids

\* db.items.toArray()
ToArray(table) ==
    LET Stored(key) == key \in DOMAIN table
        keys == SelectSeq(KeyOrder, Stored)
    IN  [k \in 1..Len(keys) |-> table[keys[k]]]

\* allItems.filter(i => i.id !== itemId)
WithoutItem(items, itemId) ==
    LET Other(item) == item.id # itemId
    IN  SelectSeq(items, Other)

\* the for loop of matchReferencesToLibrary from reference k on
RECURSIVE MatchReferencesFrom(_, _, _, _, _)
MatchReferencesFrom(refs, items, offset, k, map) ==
    IF k > Len(refs) THEN map
    ELSE MatchReferencesFrom(refs, items, offset, k + 1,
             SetMatches(map, refs[k], findMatchingItems(refs[k], items, offset)))

matchReferencesToLibrary(refs, items, offset) == MatchReferencesFrom(refs, items, offset, 1, <<>>)

\* useLiveQuery delivers the stored item to the panels: the effect of the
\* DetailPanel copies it to the form, the status effect of the AnalysisPanel runs
ItemLoaded ==
    /\ PanelShown
    /\ formData # dbItems[PanelItem]
    /\ formData' = dbItems[PanelItem]
    /\ isAnalyzing' = (PanelItem \in activeAnalyses)
    /\ UNCHANGED <<storeVars, libraryVars, citationMatches, extraction, activeAnalyses,
                   analyses, engineVars>>

\* handleChange(field, value): handleSave writes the whole form
\* (db.items.update(itemId, {...newData, dateModified})); the edits are those
\* the user makes once the form shows the item of the panel
HandleChange(field, value) ==
    /\ PanelShown
    /\ "id" \in DOMAIN formData
    /\ formData.id = PanelItem
    /\ LET newData == [formData EXCEPT ![field] = value]
       IN  /\ formData' = newData
           /\ dbItems' = Update(dbItems, PanelItem, newData)
    /\ UNCHANGED <<dbAttachments, created, libraryVars, citationMatches, extraction,
                   activeAnalyses, analyses, isAnalyzing, engineVars>>

\* the references of the ```json block of item.aiAnalysis, or [] (the block is
\* there, JSON.parse accepts it, it is a non-empty array)
ReferencesFromAI(aiAnalysis) ==
    IF /\ aiAnalysis # NoAnalysis
       /\ aiAnalysis.block.fence
       /\ aiAnalysis.block.parses
       /\ aiAnalysis.block.isArray
       /\ Len(aiAnalysis.block.elements) > 0
    THEN aiAnalysis.block.elements
    ELSE <<>>

\* db.items.update(itemId, {references, dateModified}) and the finally block
SaveReferences(refs) ==
    /\ dbItems' = Update(dbItems, extraction.itemId, [references |-> refs])
    /\ extraction' = <<>>

\* onClick of 'Extract References' up to its first await, with the item and
\* the allItems of the render; one handler runs at a time
ClickExtract ==
    /\ PanelShown
    /\ extraction = <<>>
    /\ PanelItem \in dbAttachments
    /\ LET refs == ReferencesFromAI(dbItems[PanelItem].aiAnalysis)
       IN  extraction' = [itemId |-> PanelItem,
                          references |-> refs,
                          allItems |-> ToArray(dbItems),
                          mounted |-> TRUE,
                          at |-> IF Len(refs) = 0 THEN "fallback" ELSE "match"]
    /\ UNCHANGED <<storeVars, libraryVars, formData, citationMatches, activeAnalyses,
                   analyses, isAnalyzing, engineVars>>

\* references = await extractReferencesFromPdf(pdfAttachment.data); without a
\* reference the handler saves at once
ExtractFromPdf ==
    /\ extraction # <<>>
    /\ extraction.at = "fallback"
    /\ LET refs == PdfReferences(extraction.itemId)
       IN  IF Len(refs) > 0
           THEN /\ extraction' = [extraction EXCEPT !.references = refs, !.at = "match"]
                /\ UNCHANGED dbItems
           ELSE SaveReferences(refs)
    /\ UNCHANGED <<dbAttachments, created, libraryVars, formData, citationMatches,
                   activeAnalyses, analyses, isAnalyzing, engineVars>>

\* setCitationMatches(matchReferencesToLibrary(references,
\* allItems.filter(i => i.id !== itemId))) and the saving of the references
MatchAndSave ==
    /\ extraction # <<>>
    /\ extraction.at = "match"
    /\ citationMatches' =
           IF extraction.mounted
           THEN matchReferencesToLibrary(extraction.references,
                    WithoutItem(extraction.allItems, extraction.itemId), tz)
           ELSE citationMatches
    /\ SaveReferences(extraction.references)
    /\ UNCHANGED <<dbAttachments, created, libraryVars, formData, activeAnalyses,
                   analyses, isAnalyzing, engineVars>>

\* the references the tab lists: item.references of the item of the panel
DisplayedReferences == IF PanelShown THEN dbItems[PanelItem].references ELSE <<>>

\* a library of two items with their PDFs; item a may have been analysed
ReferencesInit ==
    /\ \E aiAnalysis \in AnalysisPool \cup {NoAnalysis} :
         dbItems = ("a" :> [StoredItem("a", DoiOther, Year2020, TitleDeep, <<CreatorSmithJohn>>)
                               EXCEPT !.aiAnalysis = aiAnalysis, !.tags = {"read"}])
                   @@ ("b" :> StoredItem("b", DoiLower, Year2019, TitleGraphRef, <<>>))
    /\ dbAttachments = {"a", "b"}
    /\ created = 0
    /\ collections = <<>>
    /\ activeFilter = "all"
    /\ selectedIds = {}
    /\ deletion = NoDeletion
    /\ formData = <<>>
    /\ citationMatches = <<>>
    /\ extraction = <<>>
    /\ activeAnalyses = {}
    /\ analyses = <<>>
    /\ isAnalyzing = FALSE
    /\ MatcherIdle
    /\ ParserIdle
    /\ ExtractorIdle

\* the references tab of the DetailPanel, with edits and the trash
ReferencesNext ==
    \/ \E id \in Listed(activeFilter) : ClickRow(id)
    \/ ItemLoaded
    \/ HandleChange("date", Year2019)
    \/ TrashItem
    \/ ClickExtract
    \/ ExtractFromPdf
    \/ MatchAndSave

ReferencesSpec == ReferencesInit /\ [][ReferencesNext]_vars

(***************************************************************************)
(* The properties of the references tab.                                   *)
(***************************************************************************)
\* the ```json block of the analysis is there, parses, and is a non-empty
\* array of ParsedReference records
WellFormedBlock(aiAnalysis) ==
    /\ aiAnalysis # NoAnalysis
    /\ aiAnalysis.block.fence
    /\ aiAnalysis.block.parses
    /\ aiAnalysis.block.isArray
    /\ Len(aiAnalysis.block.elements) > 0
    /\ \A k \in 1..Len(aiAnalysis.block.elements) : WellShaped(aiAnalysis.block.elements[k])

\* C22: when the handler of 'Extract References' starts on an item whose
\* analysis has no well-formed block of references, it falls back to the
\* extraction from the PDF; and every record the handler matches and saves
\* has the shape of a ParsedReference (a numeric index and a string text).
C22_ReferencesFromAIWellShaped ==
    [][/\ (extraction = <<>> /\ extraction' # <<>>) =>
            (~WellFormedBlock(dbItems[extraction'.itemId].aiAnalysis)
                => extraction'.at = "fallback")
       /\ (extraction # <<>> /\ extraction' = <<>>) =>
            \A k \in 1..Len(dbItems'[extraction.itemId].references) :
                WellShaped(dbItems'[extraction.itemId].references[k])]_vars

\* C25: every entry of citationMatches that the tab applies to a listed
\* reference was computed from a reference of the item of the panel: the
\* item has a reference of that index whose similarity to each matched item
\* is the similarity stored.
C25_MatchesOfDisplayedItem ==
    \A k \in 1..Len(DisplayedReferences) :
        LET stored == StoredFor(citationMatches, DisplayedReferences[k])
        IN  stored # <<>> =>
              \E j \in 1..Len(DisplayedReferences) :
                 /\ DisplayedReferences[j].index = DisplayedReferences[k].index
                 /\ \A m \in 1..Len(stored) :
                        stored[m].similarity =
                            calculateSimilarity(DisplayedReferences[j], stored[m].item, tz)

MaxAnalyses == 2

\* the analyses analyzePdfWithGemini may return
AnalysisResults ==
    {Analysis(TRUE, {"ml"}, NoBlock),
     Analysis(FALSE, {}, ObjectBlock)}

\* an analysis of an item that has started on a path: "manual", "drop" or "import"
Task(itemId, path) ==
    [itemId |-> itemId, path |-> path, at |-> "analyze", analysis |-> NoAnalysis,
     writeTags |-> FALSE, tags |-> {}, mounted |-> TRUE]

\* activeItemIdRef.current of a panel that is mounted
ActiveItemId == IF Cardinality(selectedIds) = 1 THEN PanelItem ELSE "null"

\* handleAnalyze up to its first await
HandleAnalyze ==
    /\ PanelShown
    /\ ~isAnalyzing
    /\ PanelItem \in dbAttachments
    /\ Len(analyses) < MaxAnalyses
    /\ activeAnalyses' = activeAnalyses \cup {PanelItem}
    /\ isAnalyzing' = TRUE
    /\ analyses' = Append(analyses, Task(PanelItem, "manual"))
    /\ UNCHANGED <<storeVars, libraryVars, formData, citationMatches, extraction, engineVars>>

\* onDrop with one PDF on an item that has a title: the attachment is added
\* and the analysis starts in the background
OnDrop ==
    /\ PanelShown
    /\ Len(analyses) < MaxAnalyses
    /\ dbAttachments' = dbAttachments \cup {PanelItem}
    /\ activeAnalyses' = activeAnalyses \cup {PanelItem}
    /\ analyses' = Append(analyses, Task(PanelItem, "drop"))
    /\ UNCHANGED <<dbItems, created, libraryVars, formData, citationMatches, extraction,
                   isAnalyzing, engineVars>>

\* handleImportFiles for one PDF: the item and the attachment are added, the
\* analysis starts in the background and the item is selected
ImportAndAnalyze ==
    /\ created < MaxUuids
    /\ Len(analyses) < MaxAnalyses
    /\ created' = created + 1
    /\ dbItems' = Add(dbItems, Uuids[created + 1],
            [NewItem(Uuids[created + 1]) EXCEPT
                !.collectionIds = IF activeFilter \in SpecialFilters THEN {} ELSE {activeFilter}])
    /\ dbAttachments' = dbAttachments \cup {Uuids[created + 1]}
    /\ PanelsOnSelect({Uuids[created + 1]},
                      activeAnalyses \cup {Uuids[created + 1]},
                      Append(analyses, Task(Uuids[created + 1], "import")))
    /\ UNCHANGED <<collections, activeFilter, deletion, engineVars>>

\* the tags processAnalysisResult of the panels puts in its update: those
\* of `await db.items.get(id)` with data.tags added
MergedTags(itemId, analysis) ==
    (IF itemId \in DOMAIN dbItems THEN dbItems[itemId].tags ELSE {}) \cup analysis.tags

\* analyzePdfWithGemini resolves: the update is prepared; the panels merge
\* data.tags into the stored tags, the import has `updates.tags = data.tags`
AnalysisReturns(t, analysis) ==
    /\ analyses[t].at = "analyze"
    /\ analyses' = [analyses EXCEPT ![t] =
            [@ EXCEPT !.at = "update",
                      !.analysis = analysis,
                      !.writeTags = analysis.hasTags,
                      !.tags = IF analyses[t].path = "import"
                               THEN analysis.tags
                               ELSE MergedTags(analyses[t].itemId, analysis)]]
    /\ UNCHANGED <<storeVars, libraryVars, formData, citationMatches, extraction,
                   activeAnalyses, isAnalyzing, engineVars>>

\* the finally block of an analysis: activeAnalyses.delete(itemId), and
\* setIsAnalyzing(false) in handleAnalyze when the item is still the one shown
Finally(t) ==
    /\ activeAnalyses' = activeAnalyses \ {analyses[t].itemId}
    /\ isAnalyzing' = IF analyses[t].path = "manual" /\ analyses[t].itemId = ActiveItemId
                      THEN FALSE ELSE isAnalyzing

\* analyzePdfWithGemini rejects: catch and finally
AnalysisFails(t) ==
    /\ analyses[t].at = "analyze"
    /\ analyses' = [analyses EXCEPT ![t].at = "done"]
    /\ Finally(t)
    /\ UNCHANGED <<storeVars, libraryVars, formData, citationMatches, extraction, engineVars>>

\* await db.items.update(id, updates)
UpdateItem(t) ==
    /\ analyses[t].at = "update"
    /\ dbItems' = Update(dbItems, analyses[t].itemId,
            IF analyses[t].writeTags
            THEN [aiAnalysis |-> analyses[t].analysis, tags |-> analyses[t].tags]
            ELSE [aiAnalysis |-> analyses[t].analysis])
    /\ analyses' = [analyses EXCEPT ![t].at = "finish"]
    /\ UNCHANGED <<dbAttachments, created, libraryVars, formData, citationMatches, extraction,
                   activeAnalyses, isAnalyzing, engineVars>>

\* after the update: onDrop puts the analysis in the form when the item is
\* still the one shown; then the finally block
Finish(t) ==
    /\ analyses[t].at = "finish"
    /\ analyses' = [analyses EXCEPT ![t].at = "done"]
    /\ formData' = IF /\ analyses[t].path = "drop"
                      /\ analyses[t].mounted
                      /\ analyses[t].itemId = ActiveItemId
                   THEN [f \in DOMAIN formData \cup {"aiAnalysis"} |->
                            IF f = "aiAnalysis" THEN analyses[t].analysis ELSE formData[f]]
                   ELSE formData
    /\ Finally(t)
    /\ UNCHANGED <<storeVars, libraryVars, citationMatches, extraction, engineVars>>

\* a library of one item with a PDF and a tag
AnalysisInit ==
    /\ dbItems = ("a" :> [StoredItem("a", DoiOther, Year2020, TitleDeep, <<CreatorSmithJohn>>)
                             EXCEPT !.tags = {"read"}])
    /\ dbAttachments = {"a"}
    /\ created = 0
    /\ collections = <<>>
    /\ activeFilter = "all"
    /\ selectedIds = {}
    /\ deletion = NoDeletion
    /\ formData = <<>>
    /\ citationMatches = <<>>
    /\ extraction = <<>>
    /\ activeAnalyses = {}
    /\ analyses = <<>>
    /\ isAnalyzing = FALSE
    /\ MatcherIdle
    /\ ParserIdle
    /\ ExtractorIdle

\* the analyses of the three paths
AnalysisNext ==
    \/ \E id \in Listed(activeFilter) : ClickRow(id)
    \/ ItemLoaded
    \/ "tags" \in DOMAIN formData /\ HandleChange("tags", formData.tags \cup {"mine"})
    \/ HandleAnalyze
    \/ OnDrop
    \/ ImportAndAnalyze
    \/ \E t \in 1..Len(analyses), analysis \in AnalysisResults : AnalysisReturns(t, analysis)
    \/ \E t \in 1..Len(analyses) : AnalysisFails(t)
    \/ \E t \in 1..Len(analyses) : UpdateItem(t)
    \/ \E t \in 1..Len(analyses) : Finish(t)

AnalysisSpec == AnalysisInit /\ [][AnalysisNext]_vars

\* the analyses of an item that are in flight: started and not yet through
\* their finally block
InFlight(itemId) ==
    {t \in 1..Len(analyses) : analyses[t].itemId = itemId /\ analyses[t].at # "done"}

\* C23: activeAnalyses has an item exactly when an analysis of the item is
\* in flight.
C23_ActiveWhileInFlight ==
    \A itemId \in DOMAIN dbItems : itemId \in activeAnalyses <=> InFlight(itemId) # {}

\* C30: the update that stores the result of an analysis removes no tag of
\* the item: the tags after the write include the tags before it.
C30_AnalysisKeepsTags ==
    [][\A t \in 1..Len(analyses) :
          (/\ t <= Len(analyses')
           /\ analyses[t].at = "update"
           /\ analyses'[t].at = "finish"
           /\ analyses[t].itemId \in DOMAIN dbItems)
          => dbItems[analyses[t].itemId].tags \subseteq dbItems'[analyses[t].itemId].tags]_vars

====
